---- MODULE Spec2Model ----
(***************************************************************************)
(* animate-image: the transition engine of src/src/animate-image.ts.      *)
(*                                                                         *)
(* One call of animateImage is modelled: the joint await of the image      *)
(* decodes, the run step that builds one generation of particles, the      *)
(* per-refresh frame callback, the delayed one-shot that calls run again,  *)
(* and the cleanup function handed back to the caller.  The module-wide    *)
(* particle pool and current colour are state of the model.                *)
(*                                                                         *)
(* Time is counted in ticks (performance.now()); progress values are kept  *)
(* in thousandths (0..1000 stands for 0..1).                               *)
(***************************************************************************)
EXTENDS Integers, Sequences, FiniteSets, TLC

(* ------------------------------ bounds --------------------------------- *)

\* Longest supplied image list.
MaxImages == 2

\* Last tick of performance.now() to which an infinite run is explored (a
\* run that is not infinite ends by itself).
MaxClock == 22

\* Largest advance of the clock between two display refreshes.
MaxFrameStep == 2

\* Largest advance of the clock while one run step fills the particle set.
MaxSkew == 1

\* Most invocations of the returned cleanup function the model explores.
MaxCleanups == 2

\* Most generations a second call of animateImage builds.
MaxPeerRuns == 1

\* Most particles the caller of the pool holds at once.
MaxHeld == 3

\* Last tick to which the callers of the pool update their particles.
MaxPoolClock == 3

\* Particles of the previous set in the study of the spatial index.
MaxPrev == 3

\* Calls of takeClosest in the study of the spatial index.
MaxTakes == 3

\* Frames and resets of the particle in the study of its colour.
MaxRenders == 4

MaxResets == 1

\* Pointer-downs on the surface.
MaxDowns == 2

(* ------------------------- program constants --------------------------- *)

DEFAULT_MAX_POOL_SIZE == 200000

\* The value JavaScript's `undefined` takes where an image or a handle is expected.
Undefined == 0

\* Scale of progress values: 1000 stands for 1.0.
Unit == 1000

(* --------------------------- inputs of a run --------------------------- *)

\* The option values of the modelled calls.  infinity and
\* isUpdateFromLastPosition are drawn in Init; the others are the defaults of
\* animateImage except duration and delay, which are given in ticks.
\* ctx.getImageData(cx, cy, 1, 1) of the modelled runs: it returns, and the
\* pixel is white (255, as every pixel and colour of the modelled runs).
Readable == [ ok |-> TRUE, pixel |-> 255 ]

\* normalizeInteraction(interaction) of a call without the option: the
\* defaults, not enabled.  Of the normalized options the model keeps enabled,
\* mode and burst.enabled.
NoInteraction == [ enabled |-> FALSE, mode |-> "repel", burst |-> TRUE ]

\* normalizeInteraction(interaction) of the calls that set the option: true,
\* { mode: 'none' }, and { burst: false }.
Interactions ==
    { [ enabled |-> TRUE, mode |-> "repel", burst |-> TRUE ],
      [ enabled |-> TRUE, mode |-> "none", burst |-> TRUE ],
      [ enabled |-> TRUE, mode |-> "repel", burst |-> FALSE ] }

OptionValues ==
    [ infinity : BOOLEAN,
      isUpdateFromLastPosition : BOOLEAN,
      duration : {2},
      delay : {1},
      width : {24},
      height : {4},
      pixelStep : {4},
      alphaThreshold : {0},
      maxParticles : {0},
      clientWidth : {1200},
      easing : {"easeInOutCubic"},
      fade : {Unit},
      ctx : {1},
      interaction : { NoInteraction },
      sampleFromCanvas : {TRUE},
      readback : { Readable } ]

\* The default options of a finite run, from which the option variants below
\* depart in one setting at a time.
DefaultOptions(isUpdateFromLastPosition) ==
    [ infinity |-> FALSE,
      isUpdateFromLastPosition |-> isUpdateFromLastPosition,
      duration |-> 2, delay |-> 1, width |-> 24, height |-> 4,
      pixelStep |-> 4, alphaThreshold |-> 0, maxParticles |-> 0,
      clientWidth |-> 1200, easing |-> "easeInOutCubic", fade |-> Unit, ctx |-> 1,
      interaction |-> NoInteraction, sampleFromCanvas |-> TRUE,
      readback |-> Readable ]

\* The values of fade, pixelStep, clientWidth, maxParticles and alphaThreshold
\* of the modelled calls that set them.  maxParticles 0 stands for an absent
\* maxParticles (the code takes a cap only from a number > 0).
FadeValues == {0, 500, Unit}
PixelSteps == {2, 4, 5, 8}
ClientWidths == {1200, 1201}
ParticleCaps == {0, 1, 2, 4}
AlphaThresholds == {0, 100}

OptionVariants ==
    UNION { { [ DefaultOptions(u) EXCEPT !.fade = f ] : f \in FadeValues }
            \cup { [ DefaultOptions(u) EXCEPT !.pixelStep = p, !.clientWidth = c ] :
                      p \in PixelSteps, c \in ClientWidths }
            \cup { [ DefaultOptions(u) EXCEPT !.maxParticles = m ] : m \in ParticleCaps }
            \cup { [ DefaultOptions(u) EXCEPT !.alphaThreshold = a ] : a \in AlphaThresholds }
          : u \in BOOLEAN }

\* The two values randomHexColor() is taken to return.
Colors == {"#c1", "#c2"}

\* The start positions Math.random() * width, Math.random() * height is taken to give.
RandomStarts == { <<2, 2>>, <<22, 0>> }

\* The pixel data getImageData(url) yields: 24 x 4 images whose opaque pixels
\* lie in row 0.  On the default grid of stride 4, image 1 has two opaque
\* sampled pixels, image 2 one, image 3 none; image 2 has one more opaque pixel
\* at x = 6, off that grid.  Pixel (20, 0) of image 1 is half transparent, the
\* other opaque pixels are solid.
OpaqueXs(url) ==
    IF url % 3 = 1 THEN {0, 20}
    ELSE IF url % 3 = 2 THEN {6, 20}
    ELSE {}

LoadedImageData(url) ==
    [ width |-> 24,
      height |-> 4,
      alpha |-> [ xy \in (0..23) \X (0..3) |->
                    IF xy[2] = 0 /\ xy[1] \in OpaqueXs(url)
                    THEN (IF url % 3 = 1 /\ xy[1] = 20 THEN 100 ELSE 255)
                    ELSE 0 ] ]

VARIABLES
    pc,            \* where the async function animateImage stands
    options,       \* the options of the call
    images,        \* the supplied list of urls
    decode,        \* per url, the state of its getImageData promise
    imageDatas,    \* pending images (urls of decoded images)
    historyStack,  \* images already displayed
    pointArr,      \* the active particle set
    pointPool,     \* the module-wide pool of retired particles
    points,        \* the Point objects ever constructed, by identity
    rafStop,       \* handle of the frame loop, or Undefined
    nextRunStop,   \* handle of the delayed restart, or Undefined
    rafLive,       \* handles of frame loops the scheduler still serves
    nextRunLive,   \* handles of delayed one-shots the scheduler still serves
    inflight,      \* frame callbacks dispatched before, and delivered after, a cancel
    destroyed,     \* the destroyed flag of the call
    color,         \* the module-wide current colour
    clock,         \* performance.now()
    canvas,        \* the drawing surface: the positions painted on it
    attached,      \* whether the surface is attached to the host
    built,         \* observation: the image of every generation built, in order
    completedGens, \* observation: generations declared complete by a frame
    onDoneCalls,   \* observation: invocations of the completion callback
    getImageDataCalls, \* observation: per url, the calls of getImageData
    cleanupCalls,  \* observation: invocations of the returned cleanup function
    peerArr,       \* the active particle set of a second call of animateImage
    peerRuns,      \* observation: generations the second call has built
    poolBase,      \* pooled particles below the ones pointPool lists
    pointGrid,     \* the spatial index under study
    takes,         \* observation: the calls of takeClosest and their results
    drained,       \* observation: the result of drainRemaining
    rendered,      \* observation: the renders and resets of the particle under
                   \* study and the last ctx.fillStyle
    interactionState,  \* the pointer: active, position (near the particles or not), staged burst
    interactionFrame,  \* observation: the interactionFrame of the last frame callback
    pointerLog,    \* observation: pointer-downs, update passes given a burst
    transformed    \* the call of computeImageTransform under study: its
                   \* arguments and, once it has returned, its result

vars ==
    << pc, options, images, decode, imageDatas, historyStack, pointArr, pointPool,
       points, rafStop, nextRunStop, rafLive, nextRunLive, inflight, destroyed,
       color, clock, canvas, attached, built, completedGens, onDoneCalls,
       getImageDataCalls, cleanupCalls, peerArr, peerRuns, poolBase,
          pointGrid, takes, drained, rendered,
          interactionState, interactionFrame, pointerLog, transformed >>

\* The variables only the studies of single parts change.
poolVars == << poolBase >>

gridVars == << pointGrid, takes, drained >>

\* __cachedColorString and __cachedColorProgress of a particle that has not
\* cached a colour.
NoCache == -1

lookVars == << rendered >>

fitVars == << transformed >>

auxVars == << poolVars, gridVars, lookVars, fitVars >>

pointerVars == << interactionState, interactionFrame, pointerLog >>

\* interactionFrame of a call whose interaction is not enabled: undefined.
NoFrame == [ defined |-> FALSE, active |-> FALSE, near |-> FALSE, burst |-> FALSE ]

\* const interactionState = { active: false, x, y, burst: undefined }; no
\* frame callback has run.
NoPointer ==
    /\ interactionState = [ active |-> FALSE, near |-> FALSE, burst |-> FALSE ]
    /\ interactionFrame = NoFrame
    /\ pointerLog = [ downs |-> 0, seen |-> 0 ]

\* No spatial index is under study.
NoGrid ==
    /\ pointGrid = [ keys |-> << >>, rest |-> << >>, cellSize |-> 1 ]
    /\ takes = << >>
    /\ drained = << >>

\* No call of computeImageTransform is under study.
NoTransform == transformed = << >>

\* No particle has been rendered for its colour.
NoLook == rendered = [ count |-> 0, resets |-> 0, fillStyle |-> NoCache ]

(* ------------------------------ helpers -------------------------------- *)

Min(a, b) == IF a <= b THEN a ELSE b

Max(a, b) == IF a >= b THEN a ELSE b

Range(s) == { s[i] : i \in 1..Len(s) }

\* The element of a one-element set.  { F(v) : v \in {e} } names the value of
\* e once, as v, for all its uses in F.
The(S) == CHOOSE x \in S : TRUE

RECURSIVE Flatten(_)
Flatten(ss) == IF ss = << >> THEN << >> ELSE Head(ss) \o Flatten(Tail(ss))

(* --------------------------- class Point ------------------------------- *)

\* The easing library, on arguments and with results in thousandths; a result
\* is the floor of the exact value of the expression.

linear(t) == t

easeInQuad(t) == (t * t) \div Unit

easeOutQuad(t) == (t * (2 * Unit - t)) \div Unit

\* t < 0.5 ? 2 t t : -1 + (4 - 2 t) t
easeInOutQuad(t) ==
    IF 2 * t < Unit THEN (2 * t * t) \div Unit
    ELSE ((4 * Unit - 2 * t) * t - Unit * Unit) \div Unit

easeInCubic(t) == (t * t * t) \div (Unit * Unit)

\* (--t) t t + 1
easeOutCubic(t) ==
    (Unit * Unit * Unit - (Unit - t) * (Unit - t) * (Unit - t)) \div (Unit * Unit)

\* t < 0.5 ? 4 t^3 : 1 - (-2 t + 2)^3 / 2
easeInOutCubic(t) ==
    IF 2 * t < Unit
    THEN (4 * t * t * t) \div (Unit * Unit)
    ELSE (2 * Unit * Unit * Unit
            - (2 * Unit - 2 * t) * (2 * Unit - 2 * t) * (2 * Unit - 2 * t))
         \div (2 * Unit * Unit)

\* The sample arguments (thousandths of the duration) at which a particle is
\* updated in the study of Point.update.
SampleProgress == {0, 50, 100, 250, 500, 750, 900, 937, 938, 950, 990, 998, 999, 1000}

\* The elastic easings involve 2^x and sin; their values (floor, thousandths)
\* at the sample arguments.  They return 0 at 0 and 1 at 1 by an explicit test.
easeInElastic(t) ==
    IF t = 0 THEN 0 ELSE IF t = Unit THEN Unit
    ELSE (50 :> 0 @@ 100 :> 1 @@ 250 :> -6 @@ 500 :> -16 @@ 750 :> 88 @@ 900 :> -250
          @@ 937 :> 160 @@ 938 :> 174 @@ 950 :> 353 @@ 990 :> 912 @@ 998 :> 985
          @@ 999 :> 992)[t]

easeOutElastic(t) ==
    IF t = 0 THEN 0 ELSE IF t = Unit THEN Unit
    ELSE (50 :> 646 @@ 100 :> 1250 @@ 250 :> 911 @@ 500 :> 1015 @@ 750 :> 1005
          @@ 900 :> 998 @@ 937 :> 998 @@ 938 :> 998 @@ 950 :> 999 @@ 990 :> 1000
          @@ 998 :> 1000 @@ 999 :> 1000)[t]

easeInOutElastic(t) ==
    IF t = 0 THEN 0 ELSE IF t = Unit THEN Unit
    ELSE (50 :> 0 @@ 100 :> 0 @@ 250 :> 11 @@ 500 :> 500 @@ 750 :> 988 @@ 900 :> 999
          @@ 937 :> 998 @@ 938 :> 998 @@ 950 :> 999 @@ 990 :> 999 @@ 998 :> 999
          @@ 999 :> 999)[t]

\* easeOutBounce(t) as the fraction BounceNum(t) / BounceDen of a thousandth:
\* 7.5625 = 121/16 and the branch points are 4/11, 8/11 and 10/11.
BounceDen == 64 * Unit

BounceNum(t) ==
    IF 11 * t < 4 * Unit THEN 4 * 121 * t * t
    ELSE IF 11 * t < 8 * Unit
         THEN 4 * ((11 * t - 6 * Unit) * (11 * t - 6 * Unit) + 12 * Unit * Unit)
    ELSE IF 11 * t < 10 * Unit
         THEN 4 * ((11 * t - 9 * Unit) * (11 * t - 9 * Unit) + 15 * Unit * Unit)
    ELSE (22 * t - 21 * Unit) * (22 * t - 21 * Unit) + 63 * Unit * Unit

easeOutBounce(t) == BounceNum(t) \div BounceDen

\* 1 - easeOutBounce(1 - t)
easeInBounce(t) == (Unit * BounceDen - BounceNum(Unit - t)) \div BounceDen

\* t < 0.5 ? (1 - easeOutBounce(1 - 2 t)) / 2 : (1 + easeOutBounce(2 t - 1)) / 2
easeInOutBounce(t) ==
    IF 2 * t < Unit
    THEN (Unit * BounceDen - BounceNum(Unit - 2 * t)) \div (2 * BounceDen)
    ELSE (Unit * BounceDen + BounceNum(2 * t - Unit)) \div (2 * BounceDen)

\* The names applyEasing knows.
EasingNames ==
    { "linear", "ease", "ease-in", "ease-out", "ease-in-out",
      "easeInQuad", "easeOutQuad", "easeInOutQuad",
      "easeInCubic", "easeOutCubic", "easeInOutCubic",
      "easeInElastic", "easeOutElastic", "easeInOutElastic",
      "easeInBounce", "easeOutBounce", "easeInOutBounce" }

\* Variant: an unknown name falls back to linear.
applyEasing_DefaultLinear(easing, t) ==
    CASE easing = "linear" -> linear(t)
      [] easing \in {"ease", "ease-in-out", "easeInOutCubic"} -> easeInOutCubic(t)
      [] easing \in {"ease-in", "easeInCubic"} -> easeInCubic(t)
      [] easing \in {"ease-out", "easeOutCubic"} -> easeOutCubic(t)
      [] easing = "easeInQuad" -> easeInQuad(t)
      [] easing = "easeOutQuad" -> easeOutQuad(t)
      [] easing = "easeInOutQuad" -> easeInOutQuad(t)
      [] easing = "easeInElastic" -> easeInElastic(t)
      [] easing = "easeOutElastic" -> easeOutElastic(t)
      [] easing = "easeInOutElastic" -> easeInOutElastic(t)
      [] easing = "easeInBounce" -> easeInBounce(t)
      [] easing = "easeOutBounce" -> easeOutBounce(t)
      [] easing = "easeInOutBounce" -> easeInOutBounce(t)
      [] OTHER -> linear(t)

\* Point.applyEasing for an easing given by name: the switch and its default.
applyEasing(easing, t) ==
    CASE easing = "linear" -> linear(t)
      [] easing \in {"ease", "ease-in-out", "easeInOutCubic"} -> easeInOutCubic(t)
      [] easing \in {"ease-in", "easeInCubic"} -> easeInCubic(t)
      [] easing \in {"ease-out", "easeOutCubic"} -> easeOutCubic(t)
      [] easing = "easeInQuad" -> easeInQuad(t)
      [] easing = "easeOutQuad" -> easeOutQuad(t)
      [] easing = "easeInOutQuad" -> easeInOutQuad(t)
      [] easing = "easeInElastic" -> easeInElastic(t)
      [] easing = "easeOutElastic" -> easeOutElastic(t)
      [] easing = "easeInOutElastic" -> easeInOutElastic(t)
      [] easing = "easeInBounce" -> easeInBounce(t)
      [] easing = "easeOutBounce" -> easeOutBounce(t)
      [] easing = "easeInOutBounce" -> easeInOutBounce(t)
      [] OTHER -> easeInOutCubic(t)

\* new Point(options).  A colour is the level of one channel (the channels
\* are handled alike); the caller passes both colours.  A duration that is
\* not a positive number leaves the class default of 1000.
NewPoint(opt, now) ==
    [ ctx |-> opt.ctx, size |-> opt.size,
      x |-> opt.x, y |-> opt.y,
      w |-> opt.w, h |-> opt.h,
      fillStyle |-> opt.fillStyle,
      initialFillStyle |-> opt.initialFillStyle,
      startX |-> opt.x, startY |-> opt.y,
      startTime |-> now,
      shape |-> opt.shape, jitter |-> opt.jitter,
      animationDuration |-> IF opt.animationDuration > 0
                            THEN opt.animationDuration ELSE 1000,
      easing |-> opt.easing,
      completed |-> FALSE,
      progress |-> 0,
      baseX |-> opt.x, baseY |-> opt.y,
      ox |-> 0, oy |-> 0, vx |-> 0, vy |-> 0,
      cachedColorString |-> NoCache, cachedColorProgress |-> NoCache ]

\* point.reset(options): the assignments of the constructor on an existing
\* object, but for canvas, ctx and size; the cached colour string and its
\* progress stay as well.  A duration that is not a positive number leaves
\* the object's previous one.
reset(p, opt, now) ==
    [ p EXCEPT
        !.x = opt.x, !.y = opt.y,
        !.w = opt.w, !.h = opt.h,
        !.fillStyle = opt.fillStyle,
        !.initialFillStyle = opt.initialFillStyle,
        !.startX = opt.x, !.startY = opt.y,
        !.startTime = now,
        !.shape = opt.shape, !.jitter = opt.jitter,
        !.animationDuration = IF opt.animationDuration > 0
                              THEN opt.animationDuration ELSE @,
        !.easing = opt.easing,
        !.completed = FALSE,
        !.progress = 0,
        !.baseX = opt.x, !.baseY = opt.y,
        !.ox = 0, !.oy = 0, !.vx = 0, !.vy = 0 ]

\* The force integration of update (ax, ay, the burst impulse, spring, damping
\* and clamp) is replaced by a stand-in on whole pixels: per frame the
\* velocity is halved and, while the pointer is near, pushed by Push (twice
\* with a burst); the offset is halved and moved by the velocity; both are
\* kept within OffsetCap, as maxOffset keeps the offset.
Push == 2

OffsetCap == 4

\* Variant: without an active interaction frame the physics is left as it is.
update_KeepPhysics(p, currentTime, interaction) ==
    LET elapsed == currentTime - p.startTime
        t == Min(Unit, (elapsed * Unit) \div p.animationDuration)
        progress == applyEasing(p.easing, t)
        baseX == p.startX + ((p.w - p.startX) * progress) \div Unit
        baseY == p.startY + ((p.h - p.startY) * progress) \div Unit
        force == (IF interaction.near THEN Push ELSE 0)
                 + (IF interaction.near /\ interaction.burst THEN Push ELSE 0)
        vx == Min(OffsetCap, p.vx \div 2 + force)
        vy == Min(OffsetCap, p.vy \div 2 + force)
        ox == Min(OffsetCap, p.ox \div 2 + vx)
        oy == Min(OffsetCap, p.oy \div 2 + vy)
    IN  IF ~ interaction.defined \/ ~ interaction.active
        THEN [ p EXCEPT
                 !.baseX = baseX,
                 !.baseY = baseY,
                 !.completed = (progress >= Unit - 1),
                 !.progress = progress,
                 !.x = baseX + p.ox,
                 !.y = baseY + p.oy ]
        ELSE [ p EXCEPT
                 !.baseX = baseX,
                 !.baseY = baseY,
                 !.completed = (progress >= Unit - 1),
                 !.progress = progress,
                 !.ox = ox, !.oy = oy, !.vx = vx, !.vy = vy,
                 !.x = baseX + ox,
                 !.y = baseY + oy ]

\* point.update(currentTime, interaction): progress, the eased base position
\* and the completed flag; without an active interaction frame the physics is
\* zeroed and the position is the base position, else the position is the
\* base position moved by the offset.
update(p, currentTime, interaction) ==
    LET elapsed == currentTime - p.startTime
        t == Min(Unit, (elapsed * Unit) \div p.animationDuration)
        progress == applyEasing(p.easing, t)
        baseX == p.startX + ((p.w - p.startX) * progress) \div Unit
        baseY == p.startY + ((p.h - p.startY) * progress) \div Unit
        force == (IF interaction.near THEN Push ELSE 0)
                 + (IF interaction.near /\ interaction.burst THEN Push ELSE 0)
        vx == Min(OffsetCap, p.vx \div 2 + force)
        vy == Min(OffsetCap, p.vy \div 2 + force)
        ox == Min(OffsetCap, p.ox \div 2 + vx)
        oy == Min(OffsetCap, p.oy \div 2 + vy)
    IN  IF ~ interaction.defined \/ ~ interaction.active
        THEN [ p EXCEPT
                 !.baseX = baseX,
                 !.baseY = baseY,
                 !.completed = (progress >= Unit - 1),
                 !.progress = progress,
                 !.ox = 0, !.oy = 0, !.vx = 0, !.vy = 0,
                 !.x = baseX,
                 !.y = baseY ]
        ELSE [ p EXCEPT
                 !.baseX = baseX,
                 !.baseY = baseY,
                 !.completed = (progress >= Unit - 1),
                 !.progress = progress,
                 !.ox = ox, !.oy = oy, !.vx = vx, !.vy = vy,
                 !.x = baseX + ox,
                 !.y = baseY + oy ]

\* Math.round(n / d) for d > 0.
Round(n, d) == (2 * n + d) \div (2 * d)

\* interpolateColor(initialColor, targetColor, progress): one channel of the
\* rgba string, Math.round(c1 + (c2 - c1) * progress).
interpolateColor(initialColor, targetColor, progress) ==
    Round(initialColor * Unit + (targetColor - initialColor) * progress, Unit)

\* point.render(progress): the particle afterwards and the ctx.fillStyle the
\* shape is filled with.  From progress 0.999 on it is the target colour; else
\* the cached string when its progress differs by less than 0.01
\* (reuseThreshold), else the interpolation, which is cached.
render(p, progress) ==
    IF progress >= Unit - 1
    THEN [ point |-> p, fillStyle |-> p.fillStyle ]
    ELSE IF /\ p.cachedColorString # NoCache
            /\ p.cachedColorProgress # NoCache
            /\ p.cachedColorProgress - progress < 10
            /\ progress - p.cachedColorProgress < 10
    THEN [ point |-> p, fillStyle |-> p.cachedColorString ]
    ELSE LET rgbaStr == interpolateColor(p.initialFillStyle, p.fillStyle, progress)
         IN  [ point |-> [ p EXCEPT !.cachedColorString = rgbaStr,
                                    !.cachedColorProgress = progress ],
               fillStyle |-> rgbaStr ]

(* --------------------------- particle pool ----------------------------- *)

\* Variant: a particle is constructed whether the pool is empty or not.
getPointFromPool_AlwaysNew(pool, pts, opt, now) ==
    [ id |-> Len(pts) + 1,
      pool |-> pool,
      pts |-> Append(pts, NewPoint(opt, now)) ]

\* Variant: the pooled particle is handed out and stays in the pool.
getPointFromPool_NoPop(pool, pts, opt, now) ==
    IF Len(pool) > 0
    THEN LET id == pool[Len(pool)]
         IN  [ id |-> id,
               pool |-> pool,
               pts |-> [ pts EXCEPT ![id] = reset(pts[id], opt, now) ] ]
    ELSE [ id |-> Len(pts) + 1,
           pool |-> pool,
           pts |-> Append(pts, NewPoint(opt, now)) ]

\* getPointFromPool(options): pop and reset a pooled particle, else construct
\* one.  The result names the particle and gives the new pool and object store.
getPointFromPool(pool, pts, opt, now) ==
    IF Len(pool) > 0
    THEN LET id == pool[Len(pool)]
         IN  [ id |-> id,
               pool |-> SubSeq(pool, 1, Len(pool) - 1),
               pts |-> [ pts EXCEPT ![id] = reset(pts[id], opt, now) ] ]
    ELSE [ id |-> Len(pts) + 1,
           pool |-> pool,
           pts |-> Append(pts, NewPoint(opt, now)) ]

\* Variant: every particle is pushed, whatever the size of the pool.
recyclePoints_Unbounded(pool, list) == pool \o list

\* recyclePoints(points): push each particle while the pool is below its
\* capacity; the caller's list is emptied by the caller of this operator.
\* pointPool.length is poolBase + Len(pool).
RECURSIVE recyclePoints(_, _)
recyclePoints(pool, list) ==
    IF list = << >> THEN pool
    ELSE recyclePoints(
            IF poolBase + Len(pool) < DEFAULT_MAX_POOL_SIZE
            THEN Append(pool, Head(list)) ELSE pool,
            Tail(list))

(* ------------------------- spatial point index ------------------------- *)

\* key(x, y) of buildPointGrid: the cell of a position.
CellKey(x, y, cellSize) == << x \div cellSize, y \div cellSize >>

RECURSIVE FirstSeen(_)
\* The distinct elements of a sequence, in the order of their first occurrence.
FirstSeen(s) ==
    IF s = << >> THEN << >>
    ELSE LET init == FirstSeen(SubSeq(s, 1, Len(s) - 1))
             last == s[Len(s)]
         IN  IF last \in Range(init) THEN init ELSE Append(init, last)

\* buildPointGrid(points, cellSize): the buckets, as the cell keys in the order
\* the Map received them and the unclaimed particles in insertion order (a
\* bucket is the subsequence of the particles of its cell).
buildPointGrid(list, pts, cellSize) ==
    [ keys |-> FirstSeen([ i \in 1..Len(list) |->
                            CellKey(pts[list[i]].x, pts[list[i]].y, cellSize) ]),
      rest |-> list,
      cellSize |-> cellSize ]

Bucket(grid, pts, k) ==
    SelectSeq(grid.rest,
              LAMBDA id : CellKey(pts[id].x, pts[id].y, grid.cellSize) = k)

\* Variant: the claimed particle stays in its bucket.
RemoveId_Keep(list, id) == list

RemoveId(list, id) == SelectSeq(list, LAMBDA q : q # id)

\* The order in which takeClosest visits the 3 x 3 neighbourhood: dx outer, dy inner.
NeighbourOffsets ==
    << <<-1, -1>>, <<-1, 0>>, <<-1, 1>>,
       << 0, -1>>, << 0, 0>>, << 0, 1>>,
       << 1, -1>>, << 1, 0>>, << 1, 1>> >>

\* The particles of the nine buckets around cell g, in the order of the scan.
Neighbourhood(grid, pts, g) ==
    Flatten([ i \in 1..9 |->
                Bucket(grid, pts, << g[1] + NeighbourOffsets[i][1],
                                     g[2] + NeighbourOffsets[i][2] >>) ])

\* ddx * ddx + ddy * ddy of takeClosest.
DistSq(p, x, y) == (p.x - x) * (p.x - x) + (p.y - y) * (p.y - y)

\* Variant: the first particle the scan meets is returned.
ClosestOf_First(grid, pts, x, y, cand) ==
    IF cand = << >>
    THEN [ point |-> Undefined, grid |-> grid ]
    ELSE [ point |-> cand[1],
           grid |-> [ grid EXCEPT !.rest = SelectSeq(@, LAMBDA q : q # cand[1]) ] ]

\* The scan `if (dist < bestDist)` over the candidates: the first of minimal
\* distance wins; it is spliced out of its bucket.
ClosestOf(grid, pts, x, y, cand) ==
    IF cand = << >>
    THEN [ point |-> Undefined, grid |-> grid ]
    ELSE LET bestIndex ==
                CHOOSE i \in 1..Len(cand) :
                    /\ \A j \in 1..Len(cand) :
                         DistSq(pts[cand[i]], x, y) <= DistSq(pts[cand[j]], x, y)
                    /\ \A j \in 1..(i - 1) :
                         DistSq(pts[cand[j]], x, y) > DistSq(pts[cand[i]], x, y)
         IN  [ point |-> cand[bestIndex],
               grid |-> [ grid EXCEPT !.rest = RemoveId(@, cand[bestIndex]) ] ]

\* takeClosest(x, y): the first particle of minimal squared distance met in
\* the scan of the neighbourhood, removed from its bucket; Undefined when the
\* nine buckets are empty.
takeClosest(grid, pts, x, y) ==
    The({ ClosestOf(grid, pts, x, y, cand) :
            cand \in { Neighbourhood(grid, pts, CellKey(x, y, grid.cellSize)) } })

\* drainRemaining(): everything left, bucket by bucket in the Map's key order.
drainRemaining(grid, pts) ==
    Flatten([ k \in 1..Len(grid.keys) |-> Bucket(grid, pts, grid.keys[k]) ])

(* ------------------------------ getPoint ------------------------------- *)

\* Variant: the stride is the caller's pixelStep, widened by 1.5 on a wide viewport.
BaseStep_Unclamped(opts) ==
    (opts.pixelStep * (IF opts.clientWidth > 1200 THEN 15 ELSE 10)) \div 10

\* let step = Math.max(4, Math.floor(pixelStep * (clientWidth > 1200 ? 1.5 : 1)))
BaseStep(opts) ==
    Max(4, (opts.pixelStep * (IF opts.clientWidth > 1200 THEN 15 ELSE 10)) \div 10)

\* Math.ceil(step * Math.sqrt(est / cap)): the least s with s^2 cap >= step^2 est.
CeilTimesSqrt(step, est, cap) ==
    CHOOSE s \in 1..(step * est) :
        /\ s * s * cap >= step * step * est
        /\ \A r \in 1..(s - 1) : r * r * cap < step * step * est

\* const est = Math.ceil(sampleW / step) * Math.ceil(sampleH / step)
EstimatedCount(imageData, step) ==
    ((imageData.width + step - 1) \div step) * ((imageData.height + step - 1) \div step)

\* The sampling stride of getPoint: the base step, widened when maxParticles
\* is a number > 0 and the estimated count exceeds it.
SampleStep(imageData, opts) ==
    IF opts.maxParticles > 0 /\ EstimatedCount(imageData, BaseStep(opts)) > opts.maxParticles
    THEN Max(BaseStep(opts),
             CeilTimesSqrt(BaseStep(opts), EstimatedCount(imageData, BaseStep(opts)),
                           opts.maxParticles))
    ELSE BaseStep(opts)

\* Variant: every pixel that is not fully transparent is taken, whatever the threshold.
SampledTargets_AnyOpaque(imageData, opts) ==
    LET step == SampleStep(imageData, opts)
        nx == (imageData.width + step - 1) \div step
        ny == (imageData.height + step - 1) \div step
        all == [ i \in 1..(nx * ny) |->
                   << ((i - 1) % nx) * step, ((i - 1) \div nx) * step >> ]
    IN  SelectSeq(all, LAMBDA s :
            /\ imageData.alpha[s] > 0
            /\ ~ (s[1] < 0 \/ s[1] > opts.width \/ s[2] < 0 \/ s[2] > opts.height))

\* The canvas targets of the sampled pixels with alpha above the threshold,
\* in the order of the sy / sx loops.  The modelled surface has the size of
\* the images, so the contain / center transform is scale 1, offset 0.
SampledTargets(imageData, opts) ==
    LET step == SampleStep(imageData, opts)
        nx == (imageData.width + step - 1) \div step
        ny == (imageData.height + step - 1) \div step
        all == [ i \in 1..(nx * ny) |->
                   << ((i - 1) % nx) * step, ((i - 1) \div nx) * step >> ]
    IN  SelectSeq(all, LAMBDA s :
            /\ imageData.alpha[s] > opts.alphaThreshold
            /\ ~ (s[1] < 0 \/ s[1] > opts.width \/ s[2] < 0 \/ s[2] > opts.height))

\* The colour of every sampled pixel and of every start of the modelled
\* generations: the engine's frames are modelled without the colours.
White == 255

\* Variant: the fallback colour is interpolated at the progress the particle
\* has after its reset.
InitialFillStyleOf_ProgressZero(prePoint, pts, opts) ==
    IF prePoint = Undefined THEN White
    ELSE IF opts.sampleFromCanvas /\ opts.readback.ok THEN opts.readback.pixel
    ELSE interpolateColor(pts[prePoint].initialFillStyle, pts[prePoint].fillStyle, 0)

\* let initialFillStyle = color; if (prePoint) { if (sampleFromCanvas) { try {
\* ... ctx.getImageData ... } catch (e) { ... interpolateColor ... } } else
\* ... }: the pixel read back at the claimed particle's position, and the
\* interpolation of the particle's own colours at its progress when the read
\* throws or is not asked for.  opts.readback is what the read does.
InitialFillStyleOf(prePoint, pts, opts) ==
    IF prePoint = Undefined THEN White
    ELSE IF opts.sampleFromCanvas /\ opts.readback.ok THEN opts.readback.pixel
    ELSE interpolateColor(pts[prePoint].initialFillStyle, pts[prePoint].fillStyle,
                          pts[prePoint].progress)

\* Variant: every particle starts at a random position, claimed or not.
PointOptionOf_RandomStart(target, prePoint, pts, start, opts) ==
    [ w |-> target[1], h |-> target[2],
      x |-> start[1],
      y |-> start[2],
      easing |-> opts.easing,
      animationDuration |-> opts.duration,
      ctx |-> opts.ctx, size |-> 1, shape |-> "circle", jitter |-> 0,
      fillStyle |-> White,
      initialFillStyle |-> InitialFillStyleOf(prePoint, pts, opts) ]

\* The PointOption of one target: the start position is the claimed
\* particle's position, else a random one.
PointOptionOf(target, prePoint, pts, start, opts) ==
    [ w |-> target[1], h |-> target[2],
      x |-> IF prePoint # Undefined THEN pts[prePoint].x ELSE start[1],
      y |-> IF prePoint # Undefined THEN pts[prePoint].y ELSE start[2],
      easing |-> opts.easing,
      animationDuration |-> opts.duration,
      ctx |-> opts.ctx, size |-> 1, shape |-> "circle", jitter |-> 0,
      fillStyle |-> White,
      initialFillStyle |-> InitialFillStyleOf(prePoint, pts, opts) ]

\* pointArr.push(getPointFromPool({...}))
PushFromPool(acc, got) ==
    [ acc EXCEPT !.pool = got.pool, !.pts = got.pts, !.arr = Append(@, got.id) ]

\* prePoint.reset({...}); pointArr.push(prePoint)
PushClaimed(acc, taken, opt, now) ==
    [ acc EXCEPT
        !.grid = taken.grid,
        !.pts = [ @ EXCEPT ![taken.point] = reset(@, opt, now) ],
        !.arr = Append(@, taken.point) ]

\* The body of the sampling loop for one target: claim the closest previous
\* particle and reset it in place, else take a particle from the pool (or
\* construct one) at a random start position.
getPointStep(acc, taken, target, start, now, opts) ==
    IF taken.point # Undefined
    THEN PushClaimed(acc, taken,
                     PointOptionOf(target, taken.point, acc.pts, start, opts), now)
    ELSE PushFromPool(acc,
            getPointFromPool(acc.pool, acc.pts,
                             PointOptionOf(target, Undefined, acc.pts, start, opts), now))

\* grid?.takeClosest(txCanvas, tyCanvas)
TakeFor(acc, target) ==
    IF acc.hasGrid
    THEN takeClosest(acc.grid, acc.pts, target[1], target[2])
    ELSE [ point |-> Undefined, grid |-> acc.grid ]

RECURSIVE getPointLoop(_, _, _, _, _, _)
\* The sampling loop over the targets, from the k-th on.
getPointLoop(targets, k, acc, opts, nowOf, starts) ==
    IF k > Len(targets) THEN acc
    ELSE The({ getPointLoop(targets, k + 1, next, opts, nowOf, starts) :
                next \in { getPointStep(acc, taken, targets[k], starts[k], nowOf[k], opts) :
                             taken \in { TakeFor(acc, targets[k]) } } })

\* What getPoint leaves behind: the new active set, the pool and object store,
\* and the unclaimed particles pushed back into the caller's prePointArr.
getPointResult(acc, prePointArr) ==
    [ pointArr |-> acc.arr,
      pointPool |-> acc.pool,
      points |-> acc.pts,
      prePointArr |-> IF acc.hasGrid THEN drainRemaining(acc.grid, acc.pts)
                      ELSE prePointArr ]

\* getPoint(imageData, prePointArr)
getPoint(url, prePointArr, arr, pool, pts, opts, nowOf, starts) ==
    The({ getPointResult(getPointLoop(targets, 1, acc, opts, nowOf, starts), prePointArr) :
            targets \in { SampledTargets(LoadedImageData(url), opts) },
            acc \in { [ hasGrid |-> Len(prePointArr) > 0,
                        grid |-> buildPointGrid(prePointArr, pts, Max(8, SampleStep(LoadedImageData(url), opts))),
                        arr |-> arr, pool |-> pool, pts |-> pts ] } })

(* ------------------------- frame scheduling ---------------------------- *)

\* A handle no useRaf call of this run still refers to.
FreshHandle ==
    LET used == rafLive \cup nextRunLive \cup inflight \cup {rafStop, nextRunStop, Undefined}
    IN  CHOOSE h \in 1..(Cardinality(used) + 1) :
            h \notin used /\ \A g \in 1..(h - 1) : g \in used

\* stop(): the scheduler serves the handle no longer; stop?.() of Undefined does nothing.
Stopped(live, handle) == live \ {handle}

\* Most sampled targets any modelled image has.
MaxTargets ==
    CHOOSE n \in 0..6 :
        /\ \A u \in 1..3 : Cardinality(OpaqueXs(u)) <= n
        /\ \E u \in 1..3 : Cardinality(OpaqueXs(u)) = n

(* -------------------------------- run ---------------------------------- *)

\* What run leaves untouched when it returns at once.
RunSame(imgs, now) ==
    [ imageDatas |-> imgs, historyStack |-> historyStack,
      pointArr |-> pointArr, pointPool |-> pointPool, points |-> points,
      rafStop |-> rafStop, rafLive |-> rafLive,
      built |-> built, onDoneCalls |-> onDoneCalls,
      clock |-> now, threw |-> FALSE ]

\* Variant: the frame loop is stopped and the completion callback is not invoked.
RunDone_Silent(imgs, now) ==
    [ RunSame(imgs, now) EXCEPT !.rafLive = Stopped(rafLive, rafStop) ]

\* The queue is empty and the run is not infinite: rafStop?.(); return callback?.()
RunDone(imgs, now) ==
    [ RunSame(imgs, now) EXCEPT !.rafLive = Stopped(rafLive, rafStop),
                                !.onDoneCalls = @ + 1 ]

\* Variant: the most recently displayed image is taken back (pop in place of shift).
Refilled_Lifo(imgs) ==
    IF options.infinity /\ imgs = << >> /\ historyStack # << >>
    THEN [ imgs |-> << historyStack[Len(historyStack)] >>,
           hist |-> SubSeq(historyStack, 1, Len(historyStack) - 1) ]
    ELSE [ imgs |-> imgs, hist |-> historyStack ]

\* if (infinity && !imageDatas.length): historyStack.shift(), pushed onto the
\* queue when it is not undefined.
Refilled(imgs) ==
    IF options.infinity /\ imgs = << >> /\ historyStack # << >>
    THEN [ imgs |-> << Head(historyStack) >>, hist |-> Tail(historyStack) ]
    ELSE [ imgs |-> imgs, hist |-> historyStack ]

\* imageDatas.pop() of an empty queue is undefined, and getPoint(undefined)
\* throws on its first line; historyStack.push(undefined) and the emptying of
\* pointArr have happened by then.
RunThrow(q, pool, now) ==
    [ RunSame(q.imgs, now) EXCEPT
        !.historyStack = Append(q.hist, Undefined),
        !.pointArr = << >>,
        !.pointPool = pool,
        !.threw = TRUE ]

\* Variant: the queue is consumed from its front (shift in place of pop).
PopImage_Shift(imgs) == imgs[1]

\* imageDatas.pop(): the last image of the queue.
PopImage(imgs) == imgs[Len(imgs)]

\* The queue without the image taken from it (the urls of a queue are distinct).
RemoveImage(imgs, imageData) == SelectSeq(imgs, LAMBDA u : u # imageData)

\* The rest of run once getPoint has returned gp: leftovers recycled, the old
\* frame loop stopped and a new one started.
RunBuilt(q, imageData, gp, handle, now, skew) ==
    [ imageDatas |-> RemoveImage(q.imgs, imageData),
      historyStack |-> Append(q.hist, imageData),
      pointArr |-> gp.pointArr,
      pointPool |-> IF options.isUpdateFromLastPosition
                    THEN recyclePoints(gp.pointPool, gp.prePointArr)
                    ELSE gp.pointPool,
      points |-> gp.points,
      rafStop |-> handle,
      rafLive |-> Stopped(rafLive, rafStop) \cup {handle},
      built |-> Append(built, imageData),
      onDoneCalls |-> onDoneCalls,
      clock |-> IF Len(gp.pointArr) > 1 THEN now + skew ELSE now,
      threw |-> FALSE ]

\* The performance.now() the k-th particle of a generation reads.
NowOf(now, skew) == [ k \in 1..MaxTargets |-> IF k > 1 THEN now + skew ELSE now ]

\* The generating part of run for the queue q: with isUpdateFromLastPosition
\* the previous set is handed to getPoint, otherwise it is recycled first.
RunGeneration(q, now, skew, starts) ==
    IF q.imgs = << >>
    THEN RunThrow(q, IF options.isUpdateFromLastPosition THEN pointPool
                     ELSE recyclePoints(pointPool, pointArr), now)
    ELSE The({ RunBuilt(q, PopImage(q.imgs), gp, FreshHandle, now, skew) :
                gp \in { IF options.isUpdateFromLastPosition
                         THEN getPoint(PopImage(q.imgs), pointArr, << >>, pointPool,
                                       points, options, NowOf(now, skew), starts)
                         ELSE getPoint(PopImage(q.imgs), << >>, << >>,
                                       recyclePoints(pointPool, pointArr), points,
                                       options, NowOf(now, skew), starts) } })

\* Variant: run without its check of the destroyed flag.
run_Unguarded(imgs, now, skew, starts) ==
    IF ~ options.infinity /\ imgs = << >> THEN RunDone(imgs, now)
    ELSE RunGeneration(Refilled(imgs), now, skew, starts)

\* run(), called at time now with the pending images imgs.  skew is the time
\* that passes while the particle set is filled (every particle after the
\* first reads a later performance.now()); starts are the random start
\* positions.  The result gives the value every variable run touches has
\* afterwards; threw tells that getPoint raised a TypeError.
run(imgs, now, skew, starts) ==
    IF destroyed THEN RunSame(imgs, now)
    ELSE IF ~ options.infinity /\ imgs = << >> THEN RunDone(imgs, now)
    ELSE RunGeneration(Refilled(imgs), now, skew, starts)

\* The assignments of a run step to the variables run touches.
RunEffect(r) ==
    /\ imageDatas' = r.imageDatas
    /\ historyStack' = r.historyStack
    /\ pointArr' = r.pointArr
    /\ pointPool' = r.pointPool
    /\ points' = r.points
    /\ rafStop' = r.rafStop
    /\ rafLive' = r.rafLive
    /\ built' = r.built
    /\ onDoneCalls' = r.onDoneCalls
    /\ clock' = r.clock

(* ------------------------- the frame callback -------------------------- *)

RECURSIVE UpdateAll(_, _, _, _)
\* The update pass of the frame callback over the active set.
UpdateAll(list, pts, now, interaction) ==
    IF list = << >> THEN pts
    ELSE UpdateAll(Tail(list),
                   [ pts EXCEPT ![Head(list)] = update(@, now, interaction) ],
                   now, interaction)

\* Variant: the frame callback hands the staged burst on and keeps it.
BurstCleared_Kept == interactionState

\* if (interactionState.burst) interactionState.burst = undefined
BurstCleared == [ interactionState EXCEPT !.burst = FALSE ]

\* const interactionFrame = interactionOpt.enabled ? { active, x, y, ...,
\* burst } : undefined
InteractionFrameOf ==
    IF options.interaction.enabled
    THEN [ defined |-> TRUE,
           active |-> interactionState.active /\ options.interaction.mode # "none",
           near |-> interactionState.near,
           burst |-> interactionState.burst /\ options.interaction.burst ]
    ELSE NoFrame

\* Variant: the clear / fade step leaves the old pixels whatever fade is.
Cleared_Never(fadeKeep) == canvas

\* The surface after the clear / fade step.  fadeKeep >= 0.999: clearRect, no
\* old pixel stays.  Else the surface is filled with the (opaque) background
\* at alpha 1 - fadeKeep: at fadeKeep 0 the fill covers every old pixel, for a
\* fadeKeep in between the old pixels stay, dimmed.
Cleared(fadeKeep) ==
    IF fadeKeep >= Unit - 1 THEN {}
    ELSE IF Unit - fadeKeep = Unit THEN {}
    ELSE canvas

\* Variant: a complete generation stops the frame loop and schedules nothing.
FrameFinish_NoRestart(pts, cleared, allCompleted, handle, newColor) ==
    [ canvas |-> cleared \cup { << pts[pointArr[i]].x, pts[pointArr[i]].y >> :
                                  i \in 1..Len(pointArr) },
      points |-> pts,
      allCompleted |-> allCompleted,
      rafLive |-> IF allCompleted THEN Stopped(rafLive, rafStop) ELSE rafLive,
      color |-> IF allCompleted THEN newColor ELSE color,
      nextRunStop |-> nextRunStop,
      nextRunLive |-> nextRunLive ]

\* Variant: a complete generation schedules the restart and leaves the frame
\* loop running (rafStop?.() missing).
FrameFinish_KeepLoop(pts, cleared, allCompleted, handle, newColor) ==
    [ canvas |-> cleared \cup { << pts[pointArr[i]].x, pts[pointArr[i]].y >> :
                                  i \in 1..Len(pointArr) },
      points |-> pts,
      allCompleted |-> allCompleted,
      rafLive |-> rafLive,
      color |-> IF allCompleted THEN newColor ELSE color,
      nextRunStop |-> IF allCompleted THEN handle ELSE nextRunStop,
      nextRunLive |-> IF allCompleted
                      THEN Stopped(nextRunLive, nextRunStop) \cup {handle}
                      ELSE nextRunLive ]

\* if (allCompleted) { rafStop?.(); color = randomHexColor(); nextRunStop?.();
\* nextRunStop = useRaf(run, { delta: delay + duration, autoStop: true }) }
FrameFinish(pts, cleared, allCompleted, handle, newColor) ==
    [ canvas |-> cleared \cup { << pts[pointArr[i]].x, pts[pointArr[i]].y >> :
                                  i \in 1..Len(pointArr) },
      points |-> pts,
      allCompleted |-> allCompleted,
      rafLive |-> IF allCompleted THEN Stopped(rafLive, rafStop) ELSE rafLive,
      color |-> IF allCompleted THEN newColor ELSE color,
      nextRunStop |-> IF allCompleted THEN handle ELSE nextRunStop,
      nextRunLive |-> IF allCompleted
                      THEN Stopped(nextRunLive, nextRunStop) \cup {handle}
                      ELSE nextRunLive ]

\* Variant: the generation counts as complete once any particle is completed.
AllCompleted_Any(pts) ==
    pointArr = << >> \/ \E i \in 1..Len(pointArr) : pts[pointArr[i]].completed

\* let allCompleted = true; for (const point of pointArr) ... if (!point.completed)
AllCompleted(pts) == \A i \in 1..Len(pointArr) : pts[pointArr[i]].completed

FrameRender(pts, newColor) ==
    FrameFinish(pts, Cleared(Max(0, Min(Unit, options.fade))), AllCompleted(pts),
                FreshHandle, newColor)

\* The callback given to useRaf in run, fired at time now; newColor is the
\* value randomHexColor() returns when the generation is complete.
FrameCallback(now, newColor) ==
    FrameRender(UpdateAll(pointArr, points, now, InteractionFrameOf), newColor)

FrameEffect(f, now) ==
    /\ canvas' = f.canvas
    /\ points' = f.points
    /\ rafLive' = f.rafLive
    /\ color' = f.color
    /\ nextRunStop' = f.nextRunStop
    /\ nextRunLive' = f.nextRunLive
    /\ interactionState' = BurstCleared
    /\ interactionFrame' = InteractionFrameOf
    /\ pointerLog' = [ pointerLog EXCEPT
                         !.seen = IF InteractionFrameOf.burst THEN @ + 1 ELSE @ ]
    /\ completedGens' = IF f.allCompleted THEN completedGens + 1 ELSE completedGens
    /\ clock' = now

(* ------------------------------ the run -------------------------------- *)

Urls == 1..MaxImages

Init ==
    /\ pc = "start"
    /\ options \in OptionValues
    /\ \E n \in 0..MaxImages : images = [ i \in 1..n |-> i ]
    /\ decode = [ u \in {} |-> "pending" ]
    /\ imageDatas = << >>
    /\ historyStack = << >>
    /\ pointArr = << >>
    /\ pointPool = << >>
    /\ points = << >>
    /\ rafStop = Undefined
    /\ nextRunStop = Undefined
    /\ rafLive = {}
    /\ nextRunLive = {}
    /\ inflight = {}
    /\ destroyed = FALSE
    /\ color \in Colors
    /\ clock = 0
    /\ canvas = {}
    /\ attached = FALSE
    /\ built = << >>
    /\ completedGens = 0
    /\ onDoneCalls = 0
    /\ getImageDataCalls = [ u \in Urls |-> 0 ]
    /\ cleanupCalls = 0
    /\ peerArr = << >>
    /\ peerRuns = 0
    /\ poolBase = 0
    /\ NoGrid
    /\ NoLook
    /\ NoTransform
    /\ NoPointer

\* animateImage(options, callback) up to its await: the surface is created and
\* getImageData is called for every url of the list.
AnimateImage ==
    /\ pc = "start"
    /\ pc' = "await"
    /\ decode' = [ u \in Range(images) |-> "pending" ]
    /\ getImageDataCalls' = [ u \in Urls |->
                                IF u \in Range(images) THEN getImageDataCalls[u] + 1
                                ELSE getImageDataCalls[u] ]
    /\ UNCHANGED << auxVars, pointerVars, peerArr, peerRuns, options, images, imageDatas, historyStack, pointArr, pointPool,
                    points, rafStop, nextRunStop, rafLive, nextRunLive, inflight,
                    destroyed, color, clock, canvas, attached, built, completedGens,
                    onDoneCalls, cleanupCalls >>

\* One getImageData promise settles: it yields pixel data, or it fails and the
\* catch handler turns the failure into null.
DecodeSettle ==
    /\ pc = "await"
    /\ \E u \in DOMAIN decode, outcome \in {"ok", "failed"} :
        /\ decode[u] = "pending"
        /\ decode' = [ decode EXCEPT ![u] = outcome ]
    /\ UNCHANGED << auxVars, pointerVars, peerArr, peerRuns, pc, options, images, imageDatas, historyStack, pointArr, pointPool,
                    points, rafStop, nextRunStop, rafLive, nextRunLive, inflight,
                    destroyed, color, clock, canvas, attached, built, completedGens,
                    onDoneCalls, getImageDataCalls, cleanupCalls >>

\* Promise.all(...).then(results => results.filter(Boolean)): the decoded
\* images, in the order of the supplied list.
Decoded == SelectSeq(images, LAMBDA u : decode[u] = "ok")

\* run(); insertElement(container, canvas); return cleanup -- or the rejection.
ResumeEffect(r) ==
    /\ RunEffect(r)
    /\ pc' = IF r.threw THEN "rejected" ELSE "returned"
    /\ attached' = ~ r.threw

\* The continuation of animateImage after the await: the first run(), the
\* surface attached to the host, the cleanup function returned.  When run
\* throws, the promise of animateImage rejects and nothing is returned.
Resume ==
    /\ pc = "await"
    /\ \A u \in DOMAIN decode : decode[u] # "pending"
    /\ \E skew \in 0..MaxSkew, starts \in [ 1..MaxTargets -> RandomStarts ] :
        \E r \in { run(Decoded, clock, skew, starts) } : ResumeEffect(r)
    /\ UNCHANGED << auxVars, pointerVars, peerArr, peerRuns, options, images, decode, nextRunStop, nextRunLive, inflight,
                    destroyed, color, canvas, completedGens, getImageDataCalls,
                    cleanupCalls >>

\* One display refresh served to a live frame loop.
Frame ==
    /\ \E h \in rafLive, d \in 1..MaxFrameStep, newColor \in Colors :
        /\ options.infinity => clock + d <= MaxClock
        /\ \E f \in { FrameCallback(clock + d, newColor) } : FrameEffect(f, clock + d)
    /\ inflight' = inflight
    /\ UNCHANGED << auxVars, peerArr, peerRuns, pc, options, images, decode, imageDatas, historyStack, pointArr,
                    pointPool, rafStop, destroyed, attached, built,
                    onDoneCalls, getImageDataCalls, cleanupCalls >>

\* The first refresh at which timestamp - start > delta holds.
DueTime == clock + options.delay + options.duration + 1

\* Variant: the one-shot is not stopped after it has fired (autoStop missing).
DelayedRunEffect_NoAutoStop(r, h) ==
    /\ RunEffect(r)
    /\ nextRunLive' = nextRunLive

\* fn(timestamp) and, for autoStop, stop().
DelayedRunEffect(r, h) ==
    /\ RunEffect(r)
    /\ nextRunLive' = Stopped(nextRunLive, h)

\* The delayed one-shot useRaf(run, {delta: delay + duration, autoStop: true})
\* fires once more than delta has passed, calls run and stops itself.
DelayedRun ==
    /\ \E h \in nextRunLive, skew \in 0..MaxSkew,
          starts \in [ 1..MaxTargets -> RandomStarts ] :
        /\ options.infinity => DueTime + skew <= MaxClock
        /\ \E r \in { run(imageDatas, DueTime, skew, starts) } : DelayedRunEffect(r, h)
    /\ UNCHANGED << auxVars, pointerVars, peerArr, peerRuns, pc, options, images, decode, nextRunStop, inflight, destroyed,
                    color, canvas, attached, completedGens, getImageDataCalls,
                    cleanupCalls >>

\* Variant: the recycled list is not emptied (points.length = 0 missing).
Teardown_NoClear ==
    /\ destroyed' = TRUE
    /\ rafLive' = Stopped(rafLive, rafStop)
    /\ nextRunLive' = Stopped(nextRunLive, nextRunStop)
    /\ pointPool' = recyclePoints(pointPool, pointArr)
    /\ pointArr' = pointArr
    /\ historyStack' = << >>
    /\ attached' = FALSE
    /\ cleanupCalls' = cleanupCalls + 1
    /\ UNCHANGED << auxVars, pointerVars, peerArr, peerRuns, pc, options, images, decode, imageDatas, points, rafStop,
                    nextRunStop, color, clock, canvas, built, completedGens,
                    onDoneCalls, getImageDataCalls >>

\* The body of the cleanup function animateImage returns: destroyed = true,
\* both handles stopped, the active set recycled, the history cleared, the
\* surface detached.
Teardown ==
    /\ destroyed' = TRUE
    /\ rafLive' = Stopped(rafLive, rafStop)
    /\ nextRunLive' = Stopped(nextRunLive, nextRunStop)
    /\ pointPool' = recyclePoints(pointPool, pointArr)
    /\ pointArr' = << >>
    /\ historyStack' = << >>
    /\ attached' = FALSE
    /\ cleanupCalls' = cleanupCalls + 1
    /\ UNCHANGED << auxVars, pointerVars, peerArr, peerRuns, pc, options, images, decode, imageDatas, points, rafStop,
                    nextRunStop, color, clock, canvas, built, completedGens,
                    onDoneCalls, getImageDataCalls >>

\* Variant: the cleanup function is in the caller's hands during the await.
Cleanup_BeforeDecode ==
    /\ pc \in {"await", "returned"}
    /\ cleanupCalls < MaxCleanups
    /\ Teardown
    /\ inflight' = inflight

\* The caller invokes the cleanup function; it holds it once animateImage has
\* returned.
Cleanup ==
    /\ pc = "returned"
    /\ cleanupCalls < MaxCleanups
    /\ Teardown
    /\ inflight' = inflight

\* The same call made while the scheduler has already dispatched the callback
\* of the frame loop for the current refresh: the callback is still delivered.
CleanupInflight ==
    /\ pc = "returned"
    /\ cleanupCalls < MaxCleanups
    /\ rafStop \in rafLive
    /\ Teardown
    /\ inflight' = inflight \cup {rafStop}

\* The delivery of a frame callback dispatched before the cancel.
LateFrame ==
    /\ \E h \in inflight, d \in 1..MaxFrameStep, newColor \in Colors :
        /\ options.infinity => clock + d <= MaxClock
        /\ \E f \in { FrameCallback(clock + d, newColor) } : FrameEffect(f, clock + d)
        /\ inflight' = inflight \ {h}
    /\ UNCHANGED << auxVars, peerArr, peerRuns, pc, options, images, decode, imageDatas, historyStack, pointArr,
                    pointPool, rafStop, destroyed, attached, built, onDoneCalls,
                    getImageDataCalls, cleanupCalls >>

Next ==
    \/ AnimateImage
    \/ DecodeSettle
    \/ Resume
    \/ Frame
    \/ DelayedRun
    \/ Cleanup

Spec == Init /\ [][Next]_vars

\* The run under a frame scheduler whose cancel does not withdraw a callback it
\* has already dispatched.
NextInflight ==
    \/ Next
    \/ CleanupInflight
    \/ LateFrame

SpecInflight == Init /\ [][NextInflight]_vars

\* The run of a caller that never invokes the cleanup function, under a
\* display that keeps refreshing: a live frame loop is served again and again,
\* and a pending one-shot is served until it has fired.
NextLive ==
    \/ AnimateImage
    \/ DecodeSettle
    \/ Resume
    \/ Frame
    \/ DelayedRun

SpecLive ==
    Init /\ [][NextLive]_vars /\ WF_vars(Frame) /\ WF_vars(DelayedRun)

(* ------------------- a second call sharing the pool ------------------- *)

\* pointPool is a variable of the module, so every call of animateImage pushes
\* to and pops from the same pool.  Of a second call the model keeps the
\* active set; its frames change fields of its own particles only.

\* The image of the second call (image 1, two particles) and the start
\* positions Math.random() gives its particles.
PeerUrls == {1}

PeerStarts == [ k \in 1..MaxTargets |-> << 2, 2 >> ]

\* The surface of the second call (its own new Canvas(width, height)).
PeerCtx == 2

\* The options the second call's getPoint works with.
PeerOptions == [ options EXCEPT !.ctx = PeerCtx ]

\* What run of the second call leaves once getPoint has returned gp.
PeerBuilt(gp) ==
    [ peerArr |-> gp.pointArr,
      pointPool |-> IF options.isUpdateFromLastPosition
                    THEN recyclePoints(gp.pointPool, gp.prePointArr)
                    ELSE gp.pointPool,
      points |-> gp.points ]

\* The generating part of run of the second call for the image url.
PeerGeneration(url, now, starts) ==
    The({ PeerBuilt(gp) :
            gp \in { IF options.isUpdateFromLastPosition
                     THEN getPoint(url, peerArr, << >>, pointPool, points, PeerOptions,
                                   NowOf(now, 0), starts)
                     ELSE getPoint(url, << >>, << >>, recyclePoints(pointPool, peerArr),
                                   points, PeerOptions, NowOf(now, 0), starts) } })

\* run of the second call builds a generation.
PeerRun ==
    /\ pc = "returned"
    /\ peerRuns < MaxPeerRuns
    /\ peerRuns' = peerRuns + 1
    /\ \E url \in PeerUrls :
        \E r \in { PeerGeneration(url, clock, PeerStarts) } :
            /\ peerArr' = r.peerArr
            /\ pointPool' = r.pointPool
            /\ points' = r.points
    /\ UNCHANGED << auxVars, pointerVars, pc, options, images, decode, imageDatas, historyStack,
                    pointArr, rafStop, nextRunStop, rafLive, nextRunLive, inflight,
                    destroyed, color, clock, canvas, attached, built, completedGens,
                    onDoneCalls, getImageDataCalls, cleanupCalls >>

\* The cleanup function of the second call: recyclePoints(pointArr).
PeerCleanup ==
    /\ pc = "returned"
    /\ peerArr # << >>
    /\ pointPool' = recyclePoints(pointPool, peerArr)
    /\ peerArr' = << >>
    /\ UNCHANGED << auxVars, pointerVars, peerRuns, pc, options, images, decode, imageDatas, historyStack, pointArr,
                    points, rafStop, nextRunStop, rafLive, nextRunLive, inflight,
                    destroyed, color, clock, canvas, attached, built, completedGens,
                    onDoneCalls, getImageDataCalls, cleanupCalls >>

NextShared ==
    \/ Next
    \/ PeerRun
    \/ PeerCleanup

\* The state at the call of a finite run; the second call is running already.
InitShared == Init /\ ~ options.infinity /\ color = "#c1"

SpecShared == InitShared /\ [][NextShared]_vars

(* ------------------------- the option variants ------------------------- *)

\* The state at a call with one of the option variants.
InitOptions ==
    /\ pc = "start"
    /\ options \in OptionVariants
    /\ \E n \in 0..MaxImages : images = [ i \in 1..n |-> i ]
    /\ decode = [ u \in {} |-> "pending" ]
    /\ imageDatas = << >>
    /\ historyStack = << >>
    /\ pointArr = << >>
    /\ pointPool = << >>
    /\ points = << >>
    /\ rafStop = Undefined
    /\ nextRunStop = Undefined
    /\ rafLive = {}
    /\ nextRunLive = {}
    /\ inflight = {}
    /\ destroyed = FALSE
    /\ color \in Colors
    /\ clock = 0
    /\ canvas = {}
    /\ attached = FALSE
    /\ built = << >>
    /\ completedGens = 0
    /\ onDoneCalls = 0
    /\ getImageDataCalls = [ u \in Urls |-> 0 ]
    /\ cleanupCalls = 0
    /\ peerArr = << >>
    /\ peerRuns = 0
    /\ poolBase = 0
    /\ NoGrid
    /\ NoLook
    /\ NoTransform
    /\ NoPointer

SpecOptions == InitOptions /\ [][NextLive]_vars

(* ----------------------- the pointer over the surface ------------------ *)

\* The state at a call of a finite run over image 1 with one of the
\* interaction options.
InitInteract ==
    /\ pc = "start"
    /\ options \in { [ DefaultOptions(FALSE) EXCEPT !.interaction = i ] :
                       i \in Interactions \cup {NoInteraction} }
    /\ images = << 1 >>
    /\ decode = [ u \in {} |-> "pending" ]
    /\ imageDatas = << >>
    /\ historyStack = << >>
    /\ pointArr = << >>
    /\ pointPool = << >>
    /\ points = << >>
    /\ rafStop = Undefined
    /\ nextRunStop = Undefined
    /\ rafLive = {}
    /\ nextRunLive = {}
    /\ inflight = {}
    /\ destroyed = FALSE
    /\ color = "#c1"
    /\ clock = 0
    /\ canvas = {}
    /\ attached = FALSE
    /\ built = << >>
    /\ completedGens = 0
    /\ onDoneCalls = 0
    /\ getImageDataCalls = [ u \in Urls |-> 0 ]
    /\ cleanupCalls = 0
    /\ peerArr = << >>
    /\ peerRuns = 0
    /\ poolBase = 0
    /\ NoGrid
    /\ NoLook
    /\ NoTransform
    /\ NoPointer

\* The listeners are on the canvas from the return of animateImage to the
\* cleanup, when interaction is enabled.
Listening == options.interaction.enabled /\ attached

\* onMove: the pointer moves over the canvas, near the particles or not.
PointerMove ==
    /\ Listening
    /\ \E near \in BOOLEAN :
        interactionState' = [ interactionState EXCEPT !.active = TRUE, !.near = near ]
    /\ UNCHANGED << auxVars, interactionFrame, pointerLog, peerArr, peerRuns, pc, options,
                    images, decode, imageDatas, historyStack, pointArr, pointPool,
                    points, rafStop, nextRunStop, rafLive, nextRunLive, inflight,
                    destroyed, color, clock, canvas, attached, built, completedGens,
                    onDoneCalls, getImageDataCalls, cleanupCalls >>

\* onLeave
PointerLeave ==
    /\ Listening
    /\ interactionState' = [ interactionState EXCEPT !.active = FALSE ]
    /\ UNCHANGED << auxVars, interactionFrame, pointerLog, peerArr, peerRuns, pc, options,
                    images, decode, imageDatas, historyStack, pointArr, pointPool,
                    points, rafStop, nextRunStop, rafLive, nextRunLive, inflight,
                    destroyed, color, clock, canvas, attached, built, completedGens,
                    onDoneCalls, getImageDataCalls, cleanupCalls >>

\* onDown: interactionState.active = true; toLocal(ev); if
\* (interactionOpt.burst.enabled) interactionState.burst = { x, y }
Staged(near) ==
    [ interactionState EXCEPT !.active = TRUE, !.near = near,
                              !.burst = IF options.interaction.burst THEN TRUE ELSE @ ]

PointerDown ==
    /\ Listening
    /\ pointerLog.downs < MaxDowns
    /\ \E near \in BOOLEAN : interactionState' = Staged(near)
    /\ pointerLog' = [ pointerLog EXCEPT !.downs = @ + 1 ]
    /\ UNCHANGED << auxVars, interactionFrame, peerArr, peerRuns, pc, options,
                    images, decode, imageDatas, historyStack, pointArr, pointPool,
                    points, rafStop, nextRunStop, rafLive, nextRunLive, inflight,
                    destroyed, color, clock, canvas, attached, built, completedGens,
                    onDoneCalls, getImageDataCalls, cleanupCalls >>

NextInteract ==
    \/ Next
    \/ PointerMove
    \/ PointerLeave
    \/ PointerDown

SpecInteract == InitInteract /\ [][NextInteract]_vars

(* ----------------------- one particle under update --------------------- *)

\* The durations (in ticks of a millisecond) of the particle under study.
PointDurations == {1000, 2000}

\* The easing selectors of the particle under study: every name applyEasing
\* knows and one it does not know.
PointEasings == EasingNames \cup {"easeOutBack"}

\* The PointOption of the particle under study.
StudyOption(x, y, easing, duration) ==
    [ w |-> 20, h |-> 0, x |-> x, y |-> y, easing |-> easing,
      animationDuration |-> duration,
      ctx |-> 1, size |-> 1, shape |-> "circle", jitter |-> 0,
      fillStyle |-> White, initialFillStyle |-> White ]

\* new Point(options) at time 0; nothing else of the engine is running.
InitPoint ==
    /\ pc = "point"
    /\ options \in { o \in OptionValues : ~ o.infinity /\ ~ o.isUpdateFromLastPosition }
    /\ images = << >>
    /\ decode = [ u \in {} |-> "pending" ]
    /\ imageDatas = << >>
    /\ historyStack = << >>
    /\ pointArr = << >>
    /\ pointPool = << >>
    /\ \E e \in PointEasings, D \in PointDurations :
          points = << NewPoint(StudyOption(2, 2, e, D), 0) >>
    /\ rafStop = Undefined
    /\ nextRunStop = Undefined
    /\ rafLive = {}
    /\ nextRunLive = {}
    /\ inflight = {}
    /\ destroyed = FALSE
    /\ color \in Colors
    /\ clock = 0
    /\ canvas = {}
    /\ attached = FALSE
    /\ built = << >>
    /\ completedGens = 0
    /\ onDoneCalls = 0
    /\ getImageDataCalls = [ u \in Urls |-> 0 ]
    /\ cleanupCalls = 0
    /\ peerArr = << >>
    /\ peerRuns = 0
    /\ poolBase = 0
    /\ NoGrid
    /\ NoLook
    /\ NoTransform
    /\ NoPointer

\* point.update(now) at a sampled fraction of the duration after the start
\* (or past the end of the duration); time does not run backwards.
PointUpdate ==
    /\ pc = "point"
    /\ \E t \in SampleProgress \cup {1200} :
        \E now \in { points[1].startTime + (t * points[1].animationDuration) \div Unit } :
            /\ now >= clock
            /\ clock' = now
            /\ points' = << update(points[1], now, NoFrame) >>
    /\ UNCHANGED << auxVars, pointerVars, peerArr, peerRuns, pc, options, images, decode, imageDatas, historyStack, pointArr,
                    pointPool, rafStop, nextRunStop, rafLive, nextRunLive, inflight,
                    destroyed, color, canvas, attached, built, completedGens,
                    onDoneCalls, getImageDataCalls, cleanupCalls >>

\* point.reset(options) at the current time, from the position the particle
\* holds; the study resets a particle once.
PointReset ==
    /\ pc = "point"
    /\ points[1].startTime = 0
    /\ clock > 0
    /\ \E D \in PointDurations :
        points' = << reset(points[1],
                           StudyOption(points[1].x, points[1].y, points[1].easing, D),
                           clock) >>
    /\ UNCHANGED << auxVars, pointerVars, peerArr, peerRuns, pc, options, images, decode, imageDatas, historyStack, pointArr,
                    pointPool, rafStop, nextRunStop, rafLive, nextRunLive, inflight,
                    destroyed, color, clock, canvas, attached, built, completedGens,
                    onDoneCalls, getImageDataCalls, cleanupCalls >>

NextPoint ==
    \/ PointUpdate
    \/ PointReset

SpecPoint == InitPoint /\ [][NextPoint]_vars

(* ------------------------ the pool under its callers ------------------- *)

\* The variables of the engine that the studies of single parts leave alone.
idleVars ==
    << images, decode, imageDatas, historyStack, rafStop, nextRunStop, rafLive,
       nextRunLive, inflight, destroyed, color, canvas, attached, built,
       completedGens, onDoneCalls, getImageDataCalls, cleanupCalls, peerArr, peerRuns,
       pointerVars, fitVars >>

\* Their values while no call of animateImage is running.
IdleEngine ==
    /\ images = << >>
    /\ decode = [ u \in {} |-> "pending" ]
    /\ imageDatas = << >>
    /\ historyStack = << >>
    /\ rafStop = Undefined
    /\ nextRunStop = Undefined
    /\ rafLive = {}
    /\ nextRunLive = {}
    /\ inflight = {}
    /\ destroyed = FALSE
    /\ color = "#c1"
    /\ canvas = {}
    /\ attached = FALSE
    /\ built = << >>
    /\ completedGens = 0
    /\ onDoneCalls = 0
    /\ getImageDataCalls = [ u \in Urls |-> 0 ]
    /\ cleanupCalls = 0
    /\ peerArr = << >>
    /\ peerRuns = 0
    /\ NoPointer

\* The pool sizes the study starts from: an empty pool, and a pool two short
\* of its capacity (left by callers that held that many particles).  The
\* particles of the filled pool lie below the ones the study pushes and pops
\* and are counted in poolBase.
PoolFills == {0, DEFAULT_MAX_POOL_SIZE - 2}

\* The particle every pooled or held particle of the initial state is.
PoolPoint == NewPoint(StudyOption(2, 2, "linear", 2), 0)

\* Next to a filled pool the caller holds MaxHeld particles constructed while
\* the pool was empty.
InitPool ==
    /\ pc = "pool"
    /\ options \in { o \in OptionValues : ~ o.infinity /\ ~ o.isUpdateFromLastPosition }
    /\ clock = 0
    /\ poolBase \in PoolFills
    /\ NoGrid
    /\ NoLook
    /\ NoTransform
    /\ pointPool = << >>
    /\ pointArr = IF poolBase = 0 THEN << >> ELSE [ i \in 1..MaxHeld |-> i ]
    /\ points = IF poolBase = 0 THEN << >> ELSE [ i \in 1..MaxHeld |-> PoolPoint ]
    /\ IdleEngine

\* pointArr.push(getPointFromPool(options)) by a caller of the pool.
PoolAcquire ==
    /\ pc = "pool"
    /\ Len(pointArr) < MaxHeld
    /\ pointPool # << >> \/ poolBase = 0
    /\ \E start \in RandomStarts :
        \E got \in { getPointFromPool(pointPool, points,
                                       StudyOption(start[1], start[2], "linear", 2), clock) } :
            /\ pointArr' = Append(pointArr, got.id)
            /\ pointPool' = got.pool
            /\ points' = got.pts
    /\ UNCHANGED << pc, options, clock, idleVars, auxVars >>

\* recyclePoints(pointArr) by a caller of the pool.
PoolRecycle ==
    /\ pc = "pool"
    /\ pointArr # << >>
    /\ pointPool' = recyclePoints(pointPool, pointArr)
    /\ pointArr' = << >>
    /\ UNCHANGED << pc, options, points, clock, idleVars, auxVars >>

\* A frame of the caller: every held particle is updated one tick later.
PoolUpdate ==
    /\ pc = "pool"
    /\ pointArr # << >>
    /\ clock < MaxPoolClock
    /\ clock' = clock + 1
    /\ points' = UpdateAll(pointArr, points, clock + 1, NoFrame)
    /\ UNCHANGED << pc, options, pointArr, pointPool, idleVars, auxVars >>

NextPool ==
    \/ PoolAcquire
    \/ PoolRecycle
    \/ PoolUpdate

SpecPool == InitPool /\ [][NextPool]_vars

(* ----------------------- the spatial index alone ----------------------- *)

\* The positions of the previous particles: in neighbouring cells, in the same
\* cell, left of the origin, and far away.
GridPositions == { << -1, 0 >>, << 0, 0 >>, << 7, 8 >>, << 17, 3 >>, << 30, 30 >> }

\* Math.max(8, Math.round(step)): the cell sizes.
GridCellSizes == {8, 12}

\* The positions takeClosest is asked for.
GridQueries == { << 0, 0 >>, << 12, 4 >>, << 30, 20 >> }

\* buildPointGrid(prePointArr, cellSize) over up to MaxPrev previous particles.
InitGrid ==
    /\ pc = "pointGrid"
    /\ options \in { o \in OptionValues : ~ o.infinity /\ o.isUpdateFromLastPosition }
    /\ clock = 0
    /\ pointPool = << >>
    /\ poolBase = 0
    /\ \E n \in 0..MaxPrev : \E at \in [ 1..n -> GridPositions ] :
        /\ pointArr = [ i \in 1..n |-> i ]
        /\ points = [ i \in 1..n |-> NewPoint(StudyOption(at[i][1], at[i][2], "linear", 2), 0) ]
    /\ \E cellSize \in GridCellSizes : pointGrid = buildPointGrid(pointArr, points, cellSize)
    /\ takes = << >>
    /\ drained = << >>
    /\ NoLook
    /\ NoTransform
    /\ IdleEngine

\* grid.takeClosest(x, y)
GridTake ==
    /\ pc \in {"pointGrid", "drained"}
    /\ Len(takes) < MaxTakes
    /\ \E q \in GridQueries :
        \E r \in { takeClosest(pointGrid, points, q[1], q[2]) } :
            /\ pointGrid' = r.grid
            /\ takes' = Append(takes, [ x |-> q[1], y |-> q[2], point |-> r.point ])
    /\ UNCHANGED << pc, options, pointArr, pointPool, points, clock, drained,
                    idleVars, poolVars, lookVars >>

\* grid.drainRemaining(): the rest is returned and the Map cleared.
GridDrain ==
    /\ pc = "pointGrid"
    /\ pc' = "drained"
    /\ drained' = drainRemaining(pointGrid, points)
    /\ pointGrid' = [ pointGrid EXCEPT !.keys = << >>, !.rest = << >> ]
    /\ UNCHANGED << options, pointArr, pointPool, points, clock, takes,
                    idleVars, poolVars, lookVars >>

NextGrid == GridTake \/ GridDrain

SpecGrid == InitGrid /\ [][NextGrid]_vars

(* ------------------- one particle rendered and reset ------------------- *)

\* The start and target colours, the durations (0: none or not positive) and
\* the shapes and jitters of the particle under study.
LookColors == { << 0, 255 >>, << 200, 100 >> }

LookDurations == {0, 1000, 2000}

LookShapes == { << "circle", 0 >>, << "square", 2 >> }

\* The PointOptions the particle is constructed and reset with, from position (x, y).
LookOptions(x, y) ==
    { [ w |-> 20, h |-> 0, x |-> x, y |-> y, easing |-> "linear",
        animationDuration |-> D,
        ctx |-> 1, size |-> 1, shape |-> sh[1], jitter |-> sh[2],
        fillStyle |-> c[2], initialFillStyle |-> c[1] ] :
        D \in LookDurations, sh \in LookShapes, c \in LookColors }

\* The times between two frames: within one hundredth of a duration, and half
\* a second.
FrameGaps == {5, 500}

\* new Point(options) at time 0.
InitLook ==
    /\ pc = "look"
    /\ options \in { o \in OptionValues : ~ o.infinity /\ ~ o.isUpdateFromLastPosition }
    /\ clock = 0
    /\ pointPool = << >>
    /\ poolBase = 0
    /\ NoGrid
    /\ pointArr = << 1 >>
    /\ \E opt \in LookOptions(2, 2) : points = << NewPoint(opt, 0) >>
    /\ rendered = [ count |-> 0, resets |-> 0, fillStyle |-> NoCache ]
    /\ NoTransform
    /\ IdleEngine

\* One pass of the frame callback over the particle: point.update(now);
\* point.render(point.progress).
LookFrame ==
    /\ pc = "look"
    /\ rendered.count < MaxRenders
    /\ \E gap \in FrameGaps :
        \E r \in { render(p, p.progress) : p \in { update(points[1], clock + gap, NoFrame) } } :
            /\ clock' = clock + gap
            /\ points' = << r.point >>
            /\ rendered' = [ rendered EXCEPT !.count = @ + 1, !.fillStyle = r.fillStyle ]
    /\ UNCHANGED << pc, options, pointArr, pointPool, idleVars, poolVars, gridVars >>

\* point.reset(options) at the current time, as getPointFromPool and the
\* claim of a previous particle call it.
LookReset ==
    /\ pc = "look"
    /\ rendered.resets < MaxResets
    /\ \E opt \in LookOptions(points[1].x, points[1].y) :
        points' = << reset(points[1], opt, clock) >>
    /\ rendered' = [ rendered EXCEPT !.resets = @ + 1 ]
    /\ UNCHANGED << pc, options, pointArr, pointPool, clock, idleVars, poolVars, gridVars >>

NextLook == LookFrame \/ LookReset

SpecLook == InitLook /\ [][NextLook]_vars

(* ------------------- the start colour of a claimed particle ------------ *)

\* What ctx.getImageData does for one sample: it returns a pixel, or throws.
Readbacks == { [ ok |-> TRUE, pixel |-> 77 ], [ ok |-> FALSE, pixel |-> 0 ] }

\* The targets of the samples: near the previous particles, and far from them.
SampleTargets == { << 12, 0 >>, << 60, 40 >> }

\* The times the previous particles were last updated at (durations of 1000).
SampleTimes == {0, 250, 1000}

\* getPoint has built the index over the previous set: up to MaxPrev
\* particles with their own colours, last updated at one of SampleTimes.
InitSample ==
    /\ pc = "sample"
    /\ options \in { o \in OptionValues : ~ o.infinity /\ o.isUpdateFromLastPosition }
    /\ \E t \in SampleTimes :
        /\ clock = t
        /\ \E n \in 1..(MaxPrev - 1) : \E c \in [ 1..n -> LookColors ] :
            points = [ i \in 1..n |->
                         update(NewPoint([ StudyOption(2, 2, "linear", 1000) EXCEPT
                                             !.initialFillStyle = c[i][1],
                                             !.fillStyle = c[i][2] ], 0),
                                t, NoFrame) ]
    /\ pointGrid = buildPointGrid([ i \in 1..Len(points) |-> i ], points, 8)
    /\ pointArr = << >>
    /\ pointPool = << >>
    /\ poolBase = 0
    /\ takes = << >>
    /\ drained = << >>
    /\ NoLook
    /\ NoTransform
    /\ IdleEngine

\* The body of the sampling loop of getPoint for one opaque sample.
SampleOne ==
    /\ pc = "sample"
    /\ Len(takes) < MaxTakes
    /\ \E target \in SampleTargets, rb \in Readbacks :
        \E taken \in { takeClosest(pointGrid, points, target[1], target[2]) } :
            \E next \in { getPointStep([ hasGrid |-> TRUE, grid |-> pointGrid,
                                         arr |-> pointArr, pool |-> pointPool,
                                         pts |-> points ],
                                       taken, target, << 2, 2 >>, clock,
                                       [ options EXCEPT !.readback = rb ]) } :
                /\ pointGrid' = next.grid
                /\ pointArr' = next.arr
                /\ pointPool' = next.pool
                /\ points' = next.pts
                /\ takes' = Append(takes, [ x |-> target[1], y |-> target[2],
                                            point |-> taken.point, ok |-> rb.ok ])
    /\ UNCHANGED << pc, options, clock, drained, idleVars, poolVars, lookVars >>

NextSample == SampleOne

SpecSample == InitSample /\ [][NextSample]_vars

(* --------------------- the image on the surface ------------------------ *)

\* The numbers of computeImageTransform are quotients of whole pixel counts.
\* A number is kept as the fraction n / d in lowest terms, d > 0, and the
\* arithmetic below is exact.

Abs(k) == IF k < 0 THEN 0 - k ELSE k

RECURSIVE Gcd(_, _)
Gcd(a, b) == IF b = 0 THEN a ELSE Gcd(b, a % b)

\* The number n / d, for d > 0.
Ratio(n, d) ==
    LET g == Gcd(Abs(n), d) IN [ n |-> n \div g, d |-> d \div g ]

\* The number of a pixel count.
Whole(k) == [ n |-> k, d |-> 1 ]

\* a / b, for b > 0
Over(a, b) == Ratio(a.n * b.d, a.d * b.n)

\* a * b
Times(a, b) == Ratio(a.n * b.n, a.d * b.d)

\* a - b
Minus(a, b) == Ratio(a.n * b.d - b.n * a.d, a.d * b.d)

\* Math.min(a, b)
MathMin(a, b) == IF a.n * b.d <= b.n * a.d THEN a ELSE b

\* Math.max(a, b)
MathMax(a, b) == IF a.n * b.d >= b.n * a.d THEN a ELSE b

\* Variant: center puts the whole remaining space before the image.
resolveAlign_CenterIsEnd(align, remaining) ==
    CASE align = "end" -> remaining
      [] align = "center" -> remaining
      [] OTHER -> Whole(0)

\* switch (align) { case 'end': return remaining; case 'center': return
\* remaining / 2; case 'start': default: return 0 }
resolveAlign(align, remaining) ==
    CASE align = "end" -> remaining
      [] align = "center" -> Over(remaining, Whole(2))
      [] OTHER -> Whole(0)

\* computeImageTransform(imgW, imgH, canvasW, canvasH, fit, alignX, alignY)
computeImageTransform(imgW, imgH, canvasW, canvasH, fit, alignX, alignY) ==
    LET sw == Over(Whole(canvasW), Whole(imgW))
        sh == Over(Whole(canvasH), Whole(imgH))
        s == IF fit = "contain" THEN MathMin(sw, sh) ELSE MathMax(sw, sh)
        scaleX == CASE fit = "stretch" -> sw
                    [] fit \in {"contain", "cover"} -> s
                    [] OTHER -> Whole(1)
        scaleY == CASE fit = "stretch" -> sh
                    [] fit \in {"contain", "cover"} -> s
                    [] OTHER -> Whole(1)
        drawW == Times(Whole(imgW), scaleX)
        drawH == Times(Whole(imgH), scaleY)
    IN  [ scaleX |-> scaleX,
          scaleY |-> scaleY,
          offsetX |-> resolveAlign(alignX, Minus(Whole(canvasW), drawW)),
          offsetY |-> resolveAlign(alignY, Minus(Whole(canvasH), drawH)) ]

\* The widths and heights of the decoded images and of the surface the study
\* draws from: among them an image of the surface's size, one of its shape
\* and larger or smaller, wider ones and taller ones, and sizes that do not
\* divide each other.
ImageWidths == {1, 3, 7, 100, 400}
ImageHeights == {1, 2, 50, 100}
SurfaceWidths == {1, 4, 29, 400}
SurfaceHeights == {1, 3, 100}

\* type ImageFit, type Align
Fits == {"none", "contain", "cover", "stretch"}
Aligns == {"start", "center", "end"}

\* getPoint is about to place an image of some size on a surface of some size
\* under some fit and alignment.
InitTransform ==
    /\ pc = "transform"
    /\ options \in { o \in OptionValues : ~ o.infinity /\ o.isUpdateFromLastPosition }
    /\ \E imgW \in ImageWidths, imgH \in ImageHeights,
          canvasW \in SurfaceWidths, canvasH \in SurfaceHeights,
          fit \in Fits, alignX \in Aligns, alignY \in Aligns :
        transformed = << [ imgW |-> imgW, imgH |-> imgH,
                           canvasW |-> canvasW, canvasH |-> canvasH,
                           fit |-> fit, alignX |-> alignX, alignY |-> alignY ] >>
    /\ clock = 0
    /\ pointArr = << >>
    /\ pointPool = << >>
    /\ points = << >>
    /\ poolBase = 0
    /\ NoGrid
    /\ NoLook
    /\ IdleEngine

\* const transform = computeImageTransform(imgW, imgH, width, height, fit,
\* alignX, alignY)
Transform ==
    /\ pc = "transform"
    /\ Len(transformed) = 1
    /\ transformed' =
          Append(transformed,
                 computeImageTransform(transformed[1].imgW, transformed[1].imgH,
                                       transformed[1].canvasW, transformed[1].canvasH,
                                       transformed[1].fit, transformed[1].alignX,
                                       transformed[1].alignY))
    /\ UNCHANGED << pc, options, images, decode, imageDatas, historyStack, pointArr,
                    pointPool, points, rafStop, nextRunStop, rafLive, nextRunLive,
                    inflight, destroyed, color, clock, canvas, attached, built,
                    completedGens, onDoneCalls, getImageDataCalls, cleanupCalls,
                    peerArr, peerRuns, poolVars, gridVars, lookVars, pointerVars >>

NextTransform == Transform

SpecTransform == InitTransform /\ [][NextTransform]_vars

(* ============================== claims ================================= *)

AllSettled == \A u \in DOMAIN decode : decode[u] # "pending"

DecodedSet == { u \in DOMAIN decode : decode[u] = "ok" }

\* C1: in non-infinite mode onDone is invoked at most once, and only after a
\* generation has been built and has completed for every decoded image, each
\* image being used for exactly one generation.
C1_OnDoneOnceAfterEveryImage ==
    ~ options.infinity =>
        /\ onDoneCalls <= 1
        /\ onDoneCalls = 1 =>
            /\ Len(built) = Len(Decoded)
            /\ \A u \in Range(Decoded) :
                  Cardinality({ i \in 1..Len(built) : built[i] = u }) = 1
            /\ completedGens = Len(built)

\* C1 witness: two images decoded, both displayed to completion, onDone invoked,
\* no teardown.
C1_Witness ==
    /\ ~ options.infinity
    /\ ~ destroyed
    /\ onDoneCalls = 1
    /\ Len(built) = 2
    /\ completedGens = 2

\* C2 as stated: the generations follow the order of the supplied image list
\* (the first generation from the first image).
C2_GenerationsFollowListOrder ==
    (~ options.infinity /\ ~ options.isUpdateFromLastPosition) =>
        \A i \in 1..Len(built) : built[i] = Decoded[i]

\* C2 as amended: in non-infinite mode the generations follow the reverse of
\* the supplied list (the first generation from the last decoded image); a
\* generation is built only after the one before it has completed, and onDone
\* comes after the last one has completed.
C2_GenerationsFollowReverseListOrder ==
    ~ options.infinity =>
        /\ \A i \in 1..Len(built) : built[i] = Decoded[Len(Decoded) + 1 - i]
        /\ Len(built) >= 1 => completedGens >= Len(built) - 1
        /\ onDoneCalls = 1 =>
              completedGens = Len(built) /\ Len(built) = Len(Decoded)

\* C2 witness: two decoded images, no continuity: image 2, then image 1, then onDone.
C2_Witness ==
    /\ ~ options.infinity
    /\ ~ options.isUpdateFromLastPosition
    /\ built = << 2, 1 >>
    /\ completedGens = 2
    /\ onDoneCalls = 1

\* C3: in infinite mode with at least one decoded image onDone is never
\* invoked and, until teardown, the run never comes to rest: a generation is
\* either being animated by a live frame loop or, once complete, followed by
\* a scheduled generating step.
C3_InfiniteNeverEnds ==
    (options.infinity /\ pc = "returned" /\ Decoded # << >>) =>
        /\ onDoneCalls = 0
        /\ ~ destroyed =>
            IF completedGens = Len(built)
            THEN nextRunStop \in nextRunLive /\ rafLive = {}
            ELSE rafStop \in rafLive /\ nextRunLive = {}

\* C3 witness: the third generation of an infinite run has completed and the
\* next generating step is scheduled.
C3_Witness ==
    /\ options.infinity
    /\ ~ destroyed
    /\ Len(built) >= 3
    /\ completedGens = Len(built)
    /\ nextRunStop \in nextRunLive

\* C4: in infinite mode the replay is FIFO: every cycle displays every decoded
\* image exactly once, in the order of the first pass (after a full pass the
\* queue is empty and the history holds the images oldest first), and no
\* image is decoded a second time.
C4_ReplayIsFifo ==
    (options.infinity /\ pc = "returned") =>
        /\ \A i \in 1..Len(built) :
              i > Len(Decoded) => built[i] = built[i - Len(Decoded)]
        /\ \A i, j \in 1..Min(Len(Decoded), Len(built)) : i # j => built[i] # built[j]
        /\ Range(built) \subseteq Range(Decoded)
        /\ (~ destroyed /\ Len(built) >= Len(Decoded)) =>
              /\ imageDatas = << >>
              /\ historyStack = SubSeq(built, Len(built) - Len(Decoded) + 1, Len(built))
        /\ \A u \in Urls : getImageDataCalls[u] <= 1

\* C4 witness: two decoded images and two full cycles.
C4_Witness ==
    /\ options.infinity
    /\ pc = "returned"
    /\ Len(Decoded) = 2
    /\ Len(built) >= 4
    /\ built[3] = built[1]
    /\ built[4] = built[2]

\* C5: the teardown leaves the active set and the history empty and neither
\* the frame loop nor a delayed restart live; from then on the active set and
\* the history stay empty and no step, a run step that still fires included,
\* builds a generation or invokes onDone.
C5_AfterTeardown ==
    [][ /\ cleanupCalls' = cleanupCalls + 1 =>
            /\ destroyed'
            /\ pointArr' = << >>
            /\ historyStack' = << >>
            /\ rafLive' = {}
            /\ nextRunLive' = {}
        /\ destroyed =>
            /\ destroyed'
            /\ pointArr' = << >>
            /\ historyStack' = << >>
            /\ built' = built
            /\ onDoneCalls' = onDoneCalls ]_vars

\* C5 witness: a non-infinite run torn down while its first generation was
\* animating (particles recycled before they completed), with an image still
\* queued; a delayed run step scheduled afterwards has fired and built nothing.
C5_Witness ==
    /\ destroyed
    /\ ~ options.infinity
    /\ Len(built) = 1
    /\ Len(imageDatas) = 1
    /\ onDoneCalls = 0
    /\ pointArr = << >>
    /\ \E i \in 1..Len(pointPool) : ~ points[pointPool[i]].completed
    /\ completedGens = 1
    /\ nextRunStop # Undefined
    /\ nextRunLive = {}
    /\ inflight = {}

\* C6: a further invocation of the cleanup function after the first changes
\* nothing: the pool, the (empty) active set, the history and the handles stay
\* as the first invocation left them.
C6_TeardownIdempotent ==
    [][ (destroyed /\ cleanupCalls' = cleanupCalls + 1) =>
            /\ pointPool' = pointPool
            /\ pointArr' = pointArr
            /\ historyStack' = historyStack
            /\ rafLive' = rafLive
            /\ nextRunLive' = nextRunLive
            /\ attached' = attached
            /\ destroyed' ]_vars

\* C6 witness: the cleanup function has been invoked twice and the pool holds
\* the particles the first invocation recycled.
C6_Witness ==
    /\ cleanupCalls = 2
    /\ Len(pointPool) >= 2
    /\ pointArr = << >>

\* C7: a frame callback that fires after teardown does no surface work, does
\* not change the current colour and schedules no delayed restart.
C7_LateFrameIsNoOp ==
    [][ destroyed =>
            /\ canvas' = canvas
            /\ color' = color
            /\ nextRunStop' = nextRunStop
            /\ nextRunLive' \subseteq nextRunLive ]_vars

\* C8 as stated: teardown can be invoked while the decodes are pending, and a
\* run torn down then has built no generation and not invoked onDone.
C8_TeardownBeforeDecode ==
    /\ pc = "await" => ENABLED Cleanup
    /\ (pc = "await" /\ destroyed) => (built = << >> /\ onDoneCalls = 0)

\* C8 as amended: teardown can be invoked only once every decode has settled
\* and the first run step has executed (generation 1 built, or onDone invoked
\* when nothing was decoded); from the teardown on no generation is built and
\* onDone is not invoked.
C8_TeardownOnlyAfterFirstRun ==
    [][ /\ destroyed' =>
            /\ pc' = "returned"
            /\ \A u \in DOMAIN decode' : decode'[u] # "pending"
            /\ Len(built') >= 1 \/ onDoneCalls' = 1
        /\ destroyed =>
            /\ built' = built
            /\ onDoneCalls' = onDoneCalls ]_vars

\* C8 witness: the cleanup function is invoked as soon as it is returned:
\* generation 1 has been built already and no frame has been served.
C8_Witness ==
    /\ destroyed
    /\ clock = 0
    /\ Len(built) = 1
    /\ completedGens = 0
    /\ Len(pointPool) >= 1

\* C9: every decode is launched by the call, no particle exists and no
\* generation is built before every decode has settled, and when a decode has
\* failed the run is not aborted: it goes on with exactly the decoded images.
C9_FailedDecodeDoesNotAbort ==
    /\ pc = "await" =>
          /\ DOMAIN decode = Range(images)
          /\ \A u \in Range(images) : getImageDataCalls[u] = 1
    /\ (Len(built) >= 1 \/ Len(points) >= 1) => (pc # "start" /\ AllSettled)
    /\ (pc \notin {"start", "await"} /\ \E u \in DOMAIN decode : decode[u] = "failed") =>
          /\ pc = "returned"
          /\ Range(built) \subseteq DecodedSet
          /\ ~ destroyed => Range(imageDatas) \cup Range(historyStack) = DecodedSet

\* C10: when no image has been decoded the first run step builds no
\* generation, raises no error and invokes onDone, whatever the other options.
C10_ZeroImagesEndViaOnDone ==
    (pc \notin {"start", "await"} /\ Decoded = << >>) =>
        /\ pc = "returned"
        /\ built = << >>
        /\ onDoneCalls = 1

\* C11: in non-infinite mode, once animateImage has returned and as long as
\* frames and the delayed one-shot keep being served and the cleanup function
\* is not invoked, the run reaches done: every generation built has been
\* declared complete, every decoded image has been displayed and onDone has
\* been invoked.
C11_NonInfiniteRunEnds ==
    (pc = "returned" /\ ~ options.infinity) ~>
        (/\ onDoneCalls = 1
         /\ completedGens = Len(built)
         /\ Len(built) = Len(Decoded)
         /\ rafLive = {}
         /\ nextRunLive = {})

\* C11 witness: a non-infinite run with continuity over two images at rest
\* after onDone, never torn down.
C11_Witness ==
    /\ ~ options.infinity
    /\ options.isUpdateFromLastPosition
    /\ cleanupCalls = 0
    /\ onDoneCalls = 1
    /\ completedGens = 2
    /\ rafLive = {}
    /\ nextRunLive = {}

\* The raw progress (thousandths, clamped) of the particle under study at the
\* current time.
StudyProgress ==
    Min(Unit, ((clock - points[1].startTime) * Unit) \div points[1].animationDuration)

\* C12: for a particle with a named easing and duration D created or reset at
\* t0, an update at a time before t0 + 0.999 D leaves completed false, and an
\* update at t0 + D sets completed.
C12_CompletedOnlyAtEnd ==
    (pc = "point" /\ points[1].easing \in EasingNames) =>
        /\ (clock - points[1].startTime) * Unit < (Unit - 1) * points[1].animationDuration
              => ~ points[1].completed
        /\ clock - points[1].startTime = points[1].animationDuration
              => points[1].completed

\* C18: every named easing maps raw progress 0 to 0 and raw progress 1 to 1,
\* and a name applyEasing does not know behaves as easeInOutCubic.
C18_EasingBoundaries ==
    pc = "point" =>
        /\ (points[1].easing \in EasingNames /\ StudyProgress = 0)
              => points[1].progress = 0
        /\ (points[1].easing \in EasingNames /\ StudyProgress = Unit)
              => points[1].progress = Unit
        /\ points[1].easing \notin EasingNames
              => points[1].progress = easeInOutCubic(StudyProgress)

\* An unknown name updated a quarter into the duration after a reset, where
\* easeInOutCubic differs from every other curve.
C18_Witness ==
    /\ pc = "point"
    /\ points[1].easing \notin EasingNames
    /\ points[1].startTime > 0
    /\ StudyProgress = 250
    /\ points[1].progress = 62

\* The positions of the particles of the active set.
Positions == { << points[pointArr[i]].x, points[pointArr[i]].y >> : i \in 1..Len(pointArr) }

\* C13 as stated: with fade = 0 a frame clears the whole surface before it
\* draws, and with fade = 1 a frame clears no pixel of the previous frame.
C13_FadeZeroClearsOneKeeps ==
    [][ Frame =>
          /\ options.fade = 0 => canvas' = Positions'
          /\ options.fade = Unit => canvas \subseteq canvas' ]_vars

\* C13 as the code has it: with fade >= 0.999 a frame clears the whole surface
\* (no trails), with fade = 0 it covers the whole surface with the background,
\* so in both cases only the particles drawn by this frame are on it; with a
\* fade in between the pixels of the previous frames stay.
C13_FadeOneClearsMiddleKeeps ==
    [][ Frame =>
          /\ (options.fade >= Unit - 1 \/ options.fade = 0) => canvas' = Positions'
          /\ (0 < options.fade /\ options.fade < Unit - 1) => canvas \subseteq canvas' ]_vars

\* With fade = 1, the first generation (image 2, whose one particle ends at
\* (20, 0)) was drawn complete, and a frame of the second generation has left
\* the surface with its own particles only.
C13_Witness ==
    /\ options.fade = Unit
    /\ options.pixelStep = 4 /\ options.clientWidth = 1200
    /\ built = << 2, 1 >>
    /\ completedGens = 1
    /\ canvas # {}
    /\ << 20, 0 >> \notin canvas

\* The targets of the particles of the active set.
TargetsOfActive == { << points[pointArr[i]].w, points[pointArr[i]].h >> : i \in 1..Len(pointArr) }

\* The pixels of an image on the grid of a stride whose alpha is above a threshold.
GridTargets(url, stride, threshold) ==
    { xy \in (0..23) \X (0..3) :
        /\ xy[1] % stride = 0
        /\ xy[2] % stride = 0
        /\ LoadedImageData(url).alpha[xy] > threshold }

\* C14: with a positive maxParticles the active set of a generation never has
\* more than maxParticles particles.
C14_CapRespected ==
    options.maxParticles > 0 => Len(pointArr) <= options.maxParticles

\* C15 as stated: without maxParticles the particles of a generation are the
\* opaque pixels on the grid of stride pixelStep (viewport <= 1200) or
\* floor(1.5 pixelStep) (viewport > 1200).
C15_StrideIsPixelStep ==
    (built # << >> /\ options.maxParticles = 0) =>
        TargetsOfActive =
            GridTargets(built[Len(built)],
                        IF options.clientWidth > 1200
                        THEN (3 * options.pixelStep) \div 2
                        ELSE options.pixelStep,
                        options.alphaThreshold)

\* C15 as the code has it: the stride is never less than 4, that is
\* max(4, pixelStep) or max(4, floor(1.5 pixelStep)).
C15_StrideIsAtLeastFour ==
    (built # << >> /\ options.maxParticles = 0) =>
        TargetsOfActive =
            GridTargets(built[Len(built)],
                        IF options.clientWidth > 1200
                        THEN Max(4, (3 * options.pixelStep) \div 2)
                        ELSE Max(4, options.pixelStep),
                        options.alphaThreshold)

\* pixelStep 2: the generation of image 2 has the pixel at x = 20 only, the
\* opaque pixel at x = 6 (on the grid of stride 2) is not sampled.
C15_Witness ==
    /\ options.pixelStep = 2
    /\ built # << >>
    /\ built[Len(built)] = 2
    /\ TargetsOfActive = { << 20, 0 >> }

\* C16: after any generating step every particle of the active set is a pixel
\* of the sampling grid of the generation's image with alpha > alphaThreshold.
C16_OnlyAboveThreshold ==
    built # << >> =>
        TargetsOfActive \subseteq
            GridTargets(built[Len(built)],
                        SampleStep(LoadedImageData(built[Len(built)]), options),
                        options.alphaThreshold)

\* alphaThreshold 100: the generation of image 1 has the solid pixel at the
\* origin only, the sampled pixel (20, 0) of alpha 100 is skipped.
C16_Witness ==
    /\ options.alphaThreshold = 100
    /\ built # << >>
    /\ built[Len(built)] = 1
    /\ TargetsOfActive = { << 0, 0 >> }

\* C17: at a generating step with isUpdateFromLastPosition, every particle
\* claimed from the previous set is reset in place and starts exactly where its
\* last update left it (start and position = that position, progress 0, not
\* completed) and every other particle starts at a random position; without
\* the option the whole previous set is recycled and every particle of the new
\* set starts at a random position.
C17_StartOfNewGeneration ==
    [][ Len(built') = Len(built) + 1 =>
          IF options.isUpdateFromLastPosition
          THEN \A i \in 1..Len(pointArr') :
                  IF pointArr'[i] \in Range(pointArr)
                  THEN /\ points'[pointArr'[i]].startX = points[pointArr'[i]].x
                       /\ points'[pointArr'[i]].startY = points[pointArr'[i]].y
                       /\ points'[pointArr'[i]].x = points[pointArr'[i]].x
                       /\ points'[pointArr'[i]].y = points[pointArr'[i]].y
                       /\ points'[pointArr'[i]].progress = 0
                       /\ ~ points'[pointArr'[i]].completed
                  ELSE << points'[pointArr'[i]].startX, points'[pointArr'[i]].startY >>
                          \in RandomStarts
          ELSE /\ \A i \in 1..Len(pointArr') :
                     << points'[pointArr'[i]].startX, points'[pointArr'[i]].startY >>
                        \in RandomStarts
               /\ Range(pointArr) \subseteq Range(pointPool') \cup Range(pointArr') ]_vars

\* With isUpdateFromLastPosition, a particle of the second generation that was
\* claimed at the target it had reached: it starts there, not at a random
\* position, with progress 0.
C17_Witness ==
    /\ options.isUpdateFromLastPosition
    /\ Len(built) = 2
    /\ \E i \in 1..Len(pointArr) :
          /\ << points[pointArr[i]].startX, points[pointArr[i]].startY >> = << 20, 0 >>
          /\ points[pointArr[i]].progress = 0
          /\ ~ points[pointArr[i]].completed

\* C19: a frame declares the generation complete exactly when, after its
\* updates, every particle of the active set is completed; only then does it
\* stop the frame loop and schedule the delayed generating step, which builds
\* the next generation more than delay + duration later; a frame that leaves a
\* particle not completed stops and schedules nothing and keeps the colour.
C19_CompleteExactlyWhenAllCompleted ==
    [][ /\ Frame =>
            /\ (completedGens' = completedGens + 1)
                  <=> (\A i \in 1..Len(pointArr) : points'[pointArr[i]].completed)
            /\ (completedGens' = completedGens + 1) =>
                  /\ rafStop \notin rafLive'
                  /\ nextRunStop' # Undefined
                  /\ nextRunLive' = { nextRunStop' }
            /\ (completedGens' # completedGens + 1) =>
                  /\ completedGens' = completedGens
                  /\ rafLive' = rafLive
                  /\ nextRunStop' = nextRunStop
                  /\ nextRunLive' = nextRunLive
                  /\ color' = color
        /\ (Len(built') = Len(built) + 1 /\ built # << >>) =>
              clock' > clock + options.delay + options.duration ]_vars

\* A frame has left the first particle of a generation completed and the
\* second one not: the frame loop is live and no generating step is scheduled.
C19_Witness ==
    /\ Len(pointArr) = 2
    /\ points[pointArr[1]].completed
    /\ ~ points[pointArr[2]].completed
    /\ rafLive # {}
    /\ nextRunLive = {}
    /\ canvas # {}

\* The particles of a list, and whether the list names no particle twice.
NoDuplicate(list) == Cardinality(Range(list)) = Len(list)

\* C20: a particle is never in an active set and in the pool at once, never in
\* the active sets of two calls, never twice in the pool or in an active set;
\* and a generating step leaves every particle of the previous set in the new
\* set or in the pool.
C20_NoParticleShared ==
    /\ [](/\ Range(pointArr) \cap Range(pointPool) = {}
          /\ Range(peerArr) \cap Range(pointPool) = {}
          /\ Range(pointArr) \cap Range(peerArr) = {}
          /\ NoDuplicate(pointArr)
          /\ NoDuplicate(peerArr)
          /\ NoDuplicate(pointPool))
    /\ [][ /\ Len(built') = Len(built) + 1 =>
                Range(pointArr) \subseteq Range(pointArr') \cup Range(pointPool')
           /\ peerArr' # peerArr =>
                Range(peerArr) \subseteq Range(peerArr') \cup Range(pointPool') ]_vars

\* The first call has built a generation and has been torn down, and the
\* second call has built its generation from the pool: it holds the particle
\* the first call constructed first, and the pool is empty again.
C20_Witness ==
    /\ built # << >>
    /\ cleanupCalls = 1
    /\ peerRuns = 1
    /\ Len(peerArr) = 2
    /\ 1 \in Range(peerArr)
    /\ pointArr = << >>

\* C21: recycling N particles into a pool with room for them grows the pool
\* by exactly those N and empties the caller's list; an acquire from a
\* non-empty pool pops a pooled particle and resets it without constructing
\* one; an acquire from the empty pool constructs a particle.
C21_PoolReuse ==
    [][ pc = "pool" =>
          /\ (/\ pointArr # << >>
              /\ pointArr' = << >>
              /\ poolBase + Len(pointPool) + Len(pointArr) <= DEFAULT_MAX_POOL_SIZE) =>
                /\ Len(pointPool') = Len(pointPool) + Len(pointArr)
                /\ pointPool' = pointPool \o pointArr
          /\ Len(pointArr') = Len(pointArr) + 1 =>
                IF pointPool # << >>
                THEN /\ pointArr'[Len(pointArr')] = pointPool[Len(pointPool)]
                     /\ pointPool' = SubSeq(pointPool, 1, Len(pointPool) - 1)
                     /\ Len(points') = Len(points)
                     /\ points'[pointArr'[Len(pointArr')]].progress = 0
                     /\ ~ points'[pointArr'[Len(pointArr')]].completed
                     /\ points'[pointArr'[Len(pointArr')]].startTime = clock
                ELSE /\ pointArr'[Len(pointArr')] = Len(points) + 1
                     /\ Len(points') = Len(points) + 1
                     /\ pointPool' = << >> ]_vars

\* Three particles were constructed, updated to completion, recycled and
\* acquired again: the pool is exhausted and no fourth particle exists.
C21_Witness ==
    /\ pc = "pool"
    /\ poolBase = 0
    /\ pointPool = << >>
    /\ Len(pointArr) = 3
    /\ Len(points) = 3
    /\ clock >= 2
    /\ \A i \in 1..3 : points[i].startTime = clock /\ ~ points[i].completed

\* C22: the pool never holds more particles than its capacity, and the
\* particles recycled into a full pool are in neither the pool nor the
\* caller's list afterwards.
C22_PoolCapacity ==
    /\ [](poolBase + Len(pointPool) <= DEFAULT_MAX_POOL_SIZE)
    /\ [][ (/\ pc = "pool"
            /\ pointArr # << >>
            /\ pointArr' = << >>
            /\ poolBase + Len(pointPool) + Len(pointArr) > DEFAULT_MAX_POOL_SIZE) =>
              /\ poolBase + Len(pointPool') = DEFAULT_MAX_POOL_SIZE
              /\ \A i \in 1..Len(pointArr) :
                    i > DEFAULT_MAX_POOL_SIZE - (poolBase + Len(pointPool))
                        => pointArr[i] \notin Range(pointPool') ]_vars

\* The pool is full and a particle that was recycled into it was dropped: the
\* caller's list is empty and one of its particles is not in the pool.
C22_Witness ==
    /\ pc = "pool"
    /\ poolBase + Len(pointPool) = DEFAULT_MAX_POOL_SIZE
    /\ pointArr = << >>
    /\ Len(points) > Len(pointPool)

\* The unclaimed particles of the nine cells around the cell of (x, y).
NearCells(x, y) ==
    { id \in Range(pointGrid.rest) :
        /\ (points[id].x \div pointGrid.cellSize) - (x \div pointGrid.cellSize) \in -1..1
        /\ (points[id].y \div pointGrid.cellSize) - (y \div pointGrid.cellSize) \in -1..1 }

\* C23: takeClosest(x, y) returns an unclaimed particle of the nine cells
\* around (x, y) that no other one of them is closer to (x, y) than, and
\* returns nothing exactly when the nine cells hold none; when every
\* unclaimed particle lies in the nine cells no unclaimed particle at all is
\* closer.
C23_ClosestInNeighbourhood ==
    [][ (pc \in {"pointGrid", "drained"} /\ Len(takes') = Len(takes) + 1) =>
          LET q == takes'[Len(takes')]
              near == NearCells(q.x, q.y)
          IN  /\ q.point = Undefined <=> near = {}
              /\ q.point # Undefined =>
                    /\ q.point \in near
                    /\ \A id \in near :
                         DistSq(points[q.point], q.x, q.y) <= DistSq(points[id], q.x, q.y)
                    /\ near = Range(pointGrid.rest) =>
                         \A id \in Range(pointArr) \ { takes[i].point : i \in 1..Len(takes) } :
                            DistSq(points[q.point], q.x, q.y) <= DistSq(points[id], q.x, q.y) ]_vars

\* A call returned the closer of two particles of different cells, the next
\* one the other, and a third call for a far position returned nothing
\* although a particle was left.
C23_Witness ==
    /\ pc = "pointGrid"
    /\ Len(takes) = 3
    /\ takes[1].point # Undefined
    /\ takes[2].point # Undefined
    /\ takes[1].x = takes[2].x /\ takes[1].y = takes[2].y
    /\ CellKey(points[takes[1].point].x, points[takes[1].point].y, pointGrid.cellSize)
         # CellKey(points[takes[2].point].x, points[takes[2].point].y, pointGrid.cellSize)
    /\ DistSq(points[takes[1].point], takes[1].x, takes[1].y)
         < DistSq(points[takes[2].point], takes[2].x, takes[2].y)
    /\ takes[3].point = Undefined
    /\ pointGrid.rest # << >>

\* The particles the calls of takeClosest returned.
Claimed == { takes[i].point : i \in 1..Len(takes) } \ {Undefined}

\* C24: until it is claimed a previous particle is in exactly one bucket; no
\* particle is returned twice; after drainRemaining the index is empty and
\* the drained list holds every particle that was never claimed exactly once.
C24_IndexPartitions ==
    pc \in {"pointGrid", "drained"} =>
        /\ NoDuplicate(pointGrid.keys)
        /\ NoDuplicate(pointGrid.rest)
        /\ \A id \in Range(pointGrid.rest) :
              CellKey(points[id].x, points[id].y, pointGrid.cellSize) \in Range(pointGrid.keys)
        /\ \A i, j \in 1..Len(takes) :
              (i # j /\ takes[i].point # Undefined) => takes[i].point # takes[j].point
        /\ Claimed \cap Range(pointGrid.rest) = {}
        /\ pc = "pointGrid" => Claimed \cup Range(pointGrid.rest) = Range(pointArr)
        /\ pc = "drained" =>
              /\ pointGrid.rest = << >>
              /\ Neighbourhood(pointGrid, points, << 0, 0 >>) = << >>
              /\ NoDuplicate(drained)
              /\ Claimed \cap Range(drained) = {}
              /\ Claimed \cup Range(drained) = Range(pointArr)

\* Two of three previous particles were claimed, the third one drained.
C24_Witness ==
    /\ pc = "drained"
    /\ Len(pointArr) = 3
    /\ Cardinality(Claimed) = 2
    /\ Len(drained) = 1

\* C25: every particle of a call's active set draws onto the surface of that
\* call, also a particle that came out of the shared pool after another call
\* had recycled it.
C25_DrawsOnOwnSurface ==
    /\ \A i \in 1..Len(pointArr) : points[pointArr[i]].ctx = options.ctx
    /\ \A i \in 1..Len(peerArr) : points[peerArr[i]].ctx = PeerCtx

\* C26: render fills with exactly the target colour from progress 0.999 on,
\* and below that with the interpolation between the particle's current start
\* and target colours at a progress less than 0.01 away from the one it was
\* called with, also in the first renders after a reset.
C26_RenderColour ==
    [][ (pc = "look" /\ rendered'.count = rendered.count + 1) =>
          LET p == points'[1]
          IN  IF p.progress >= Unit - 1
              THEN rendered'.fillStyle = p.fillStyle
              ELSE \E q \in (p.progress - 9)..(p.progress + 9) :
                      rendered'.fillStyle
                        = interpolateColor(p.initialFillStyle, p.fillStyle, q) ]_vars

\* The fields of a particle that decide its timing, its motion and its colours.
Motion(p) ==
    [ x |-> p.x, y |-> p.y, w |-> p.w, h |-> p.h,
      startX |-> p.startX, startY |-> p.startY, startTime |-> p.startTime,
      animationDuration |-> p.animationDuration, easing |-> p.easing,
      shape |-> p.shape, jitter |-> p.jitter,
      fillStyle |-> p.fillStyle, initialFillStyle |-> p.initialFillStyle,
      progress |-> p.progress, completed |-> p.completed,
      baseX |-> p.baseX, baseY |-> p.baseY,
      ox |-> p.ox, oy |-> p.oy, vx |-> p.vx, vy |-> p.vy ]

\* C27: a particle that is reset equals, in timing, motion and colours, the
\* particle the constructor makes from the same options at the same instant,
\* whatever the options are, a missing or non-positive duration included.
C27_ResetAsConstructed ==
    pc = "look" =>
        \A opt \in LookOptions(points[1].x, points[1].y) :
            Motion(reset(points[1], opt, clock)) = Motion(NewPoint(opt, clock))

\* C28: when the last update pass had no active interaction frame (interaction
\* not enabled, mode 'none', or the pointer not over the surface), whatever
\* moves and bursts there were, every particle has physics offset and
\* velocity 0 and stands at its eased base position.
C28_NoInteractionNoOffset ==
    (\/ ~ options.interaction.enabled
     \/ options.interaction.mode = "none"
     \/ ~ interactionFrame.active) =>
        \A i \in 1..Len(pointArr) :
            LET p == points[pointArr[i]]
            IN  /\ p.ox = 0 /\ p.oy = 0 /\ p.vx = 0 /\ p.vy = 0
                /\ p.x = p.baseX /\ p.y = p.baseY
                /\ p.baseX = p.startX + ((p.w - p.startX) * p.progress) \div Unit
                /\ p.baseY = p.startY + ((p.h - p.startY) * p.progress) \div Unit

\* A particle half way to its target was updated without an active frame after
\* the pointer had been over the surface and had left it.
C28_Witness ==
    /\ options.interaction.enabled
    /\ options.interaction.mode = "repel"
    /\ interactionFrame.defined
    /\ ~ interactionFrame.active
    /\ interactionFrame.near
    /\ pointerLog.seen > 0
    /\ \E i \in 1..Len(pointArr) :
          /\ points[pointArr[i]].progress > 0
          /\ ~ points[pointArr[i]].completed
          /\ points[pointArr[i]].ox = 0
          /\ points[pointArr[i]].x = points[pointArr[i]].baseX

\* A step of the frame callback: time passes and no generation is built.
FrameStep ==
    /\ clock' > clock
    /\ built' = built
    /\ onDoneCalls' = onDoneCalls
    /\ pointArr' = pointArr

C30_ReadbackFailureFallsBack ==
    [][ (pc = "sample" /\ Len(takes') = Len(takes) + 1) =>
          LET e == takes'[Len(takes')]
          IN  (e.point # Undefined /\ ~ e.ok) =>
                /\ points'[e.point].initialFillStyle
                     = Round(points[e.point].initialFillStyle * Unit
                               + (points[e.point].fillStyle - points[e.point].initialFillStyle)
                                   * points[e.point].progress, Unit)
                /\ points'[e.point].progress = 0
                /\ ~ points'[e.point].completed
                /\ pointArr' = Append(pointArr, e.point)
                /\ Len(points') = Len(points)
                /\ \A j \in 1..Len(points) : j # e.point => points'[j] = points[j] ]_vars

\* The read for the first claimed particle threw at a quarter of its way from
\* colour 200 to colour 100, the read for the second one returned a pixel.
C30_Witness ==
    /\ pc = "sample"
    /\ Len(takes) = 2
    /\ takes[1].point # Undefined /\ ~ takes[1].ok
    /\ takes[2].point # Undefined /\ takes[2].ok
    /\ points[takes[1].point].initialFillStyle = 175
    /\ points[takes[2].point].initialFillStyle = 77
    /\ pointArr = << takes[1].point, takes[2].point >>


(* --------------------- one frame loop, one restart --------------------- *)

\* C31: in every reachable state of one call at most one frame loop is served
\* and at most one delayed restart is pending, and never both; a step that
\* schedules a delayed restart leaves no frame loop served, and a step that
\* starts a frame loop leaves none of the earlier ones served.
C31_OneLoopOrOneRestart ==
    /\ [](/\ Cardinality(rafLive) <= 1
          /\ Cardinality(nextRunLive) <= 1
          /\ rafLive = {} \/ nextRunLive = {})
    /\ [][ /\ (nextRunLive' \ nextRunLive # {}) => rafLive' = {}
           /\ (rafLive' \ rafLive # {}) => /\ rafLive' \cap rafLive = {}
                                            /\ rafLive' = {rafStop'} ]_vars

\* The delayed restart of a complete generation has fired: the frame loop of
\* the second generation is the only thing the scheduler serves.
C31_Witness ==
    /\ Len(built) >= 2
    /\ completedGens >= 1
    /\ nextRunStop # Undefined
    /\ nextRunLive = {}
    /\ rafLive = {rafStop}
    /\ ~ destroyed

(* --------------------- the queue and the history ----------------------- *)

\* The entries of the pending queue followed by those of the history stack.
Held == imageDatas \o historyStack

\* C32: once run has been called and before teardown, the pending queue and
\* the history stack together hold every decoded image exactly once and
\* nothing else, and the history stack has at most as many entries as there
\* are decoded images.
C32_QueueAndHistoryPartition ==
    (pc \in {"returned", "rejected"} /\ ~ destroyed) =>
        /\ \A u \in DecodedSet : Cardinality({ i \in 1..Len(Held) : Held[i] = u }) = 1
        /\ Range(Held) \subseteq DecodedSet
        /\ Len(historyStack) <= Len(Decoded)

(* ------------------------ fit and alignment ---------------------------- *)

\* The offset off along an axis where num / den of the surface remains beside
\* the drawn image is the one the alignment asks for.
OffsetAsAligned(align, off, num, den) ==
    /\ off.d > 0
    /\ align = "start" => off.n = 0
    /\ align = "center" => 2 * off.n * den = num * off.d
    /\ align = "end" => off.n * den = num * off.d

\* C33: for every image size, surface size, fit and alignment the result of
\* computeImageTransform is the specified mapping.  stretch: each axis is
\* scaled so that the drawn image is as wide and as high as the surface.
\* contain: one scale for both axes, the smaller of surface / image of the two
\* axes (the drawn image fits the surface and fills it along one axis).
\* cover: one scale, the larger of the two (the drawn image covers the surface
\* and fits it along one axis).  none: scale 1.  Along each axis the offset is
\* 0 for start, half the remaining space for center and all of it for end,
\* the remaining space being the surface dimension minus the drawn one; under
\* contain the drawn image lies inside the surface.
C33_TransformAsSpecified ==
    Len(transformed) = 2 =>
        LET a == transformed[1]
            r == transformed[2]
            sx == r.scaleX
            sy == r.scaleY
            \* drawn width = a.imgW * sx.n / sx.d, drawn height alike
            remW == a.canvasW * sx.d - a.imgW * sx.n
            remH == a.canvasH * sy.d - a.imgH * sy.n
        IN  /\ sx.d > 0 /\ sy.d > 0
            /\ a.fit = "stretch" => remW = 0 /\ remH = 0
            /\ a.fit = "contain" =>
                  /\ sx.n * sy.d = sy.n * sx.d
                  /\ remW >= 0 /\ remH >= 0
                  /\ remW = 0 \/ remH = 0
            /\ a.fit = "cover" =>
                  /\ sx.n * sy.d = sy.n * sx.d
                  /\ remW <= 0 /\ remH <= 0
                  /\ remW = 0 \/ remH = 0
            /\ a.fit = "none" => sx.n = sx.d /\ sy.n = sy.d
            /\ OffsetAsAligned(a.alignX, r.offsetX, remW, sx.d)
            /\ OffsetAsAligned(a.alignY, r.offsetY, remH, sy.d)
            /\ a.fit = "contain" =>
                  /\ r.offsetX.n >= 0 /\ r.offsetX.n * sx.d <= remW * r.offsetX.d
                  /\ r.offsetY.n >= 0 /\ r.offsetY.n * sy.d <= remH * r.offsetY.d

\* An image of 100 x 50 contained and centered on a surface of 400 x 100:
\* scale 2, drawn 200 x 100, offset 100 across and 0 down.
C33_Witness ==
    /\ Len(transformed) = 2
    /\ transformed[1] = [ imgW |-> 100, imgH |-> 50, canvasW |-> 400, canvasH |-> 100,
                          fit |-> "contain", alignX |-> "center", alignY |-> "center" ]
    /\ transformed[2].scaleX = [ n |-> 2, d |-> 1 ]
    /\ transformed[2].scaleY = [ n |-> 2, d |-> 1 ]
    /\ transformed[2].offsetX = [ n |-> 100, d |-> 1 ]
    /\ transformed[2].offsetY = [ n |-> 0, d |-> 1 ]

====
